---- MODULE Spec2Model ----
(***************************************************************************)
(* Model of the invoice tool's normalisation engine:                       *)
(*   csv_excel_processor.py  CSVExcelProcessor (column mapping, line-item  *)
(*                           extraction, single-record normalisation,     *)
(*                           bulk segmentation)                            *)
(*   invoice_reader.py       InvoiceReader (pattern-based text extraction, *)
(*                           extraction orchestration)                     *)
(*                                                                         *)
(* Python str values are TLA+ strings.  A DataFrame cell (and any Python   *)
(* value taken from a cell) is a record [k, n, s]: k = "nan" for a missing *)
(* cell, "num" for a number n, "str" for a str s, "none" for None.         *)
(* Numbers are integers; frames hold Python objects (dtype object), so a   *)
(* number keeps its value when a row is read.                              *)
(***************************************************************************)
EXTENDS Integers, Sequences, FiniteSets, TLC

VARIABLES
    op,         \* which operation of the processor has run on df
    df,         \* the decoded table: [columns, index, rows]
    today,      \* datetime.now(), as [y, m, d]
    invoices,   \* outcome of _extract_multiple_invoices(df)
    items,      \* result of _extract_line_items_from_df(df)
    item_src,   \* for each item of items, the index label of its row
    inv_src,    \* for each returned invoice, the index labels of its rows
    header,     \* column mapper: a header list
    header_p,   \* column mapper: a reordering of header
    bound,      \* column mapper: the bindings found for header
    bound_p,    \* column mapper: the bindings found for header_p
    text,       \* text extractor: the raw text
    extracted,  \* text extractor: result of _rule_based_extraction(text)
    reader,     \* InvoiceReader: which collaborators its constructor wired
    file,       \* uploaded document: extension and what each engine does on it
    method,     \* the method argument of extract_invoice_data
    pc,         \* position of the extract_invoice_data call
    in_try,     \* the call is inside the try block of _auto_extract
    raw_text,   \* text returned by _extract_text_from_file
    calls,      \* how often text extraction and the LLM have been invoked
    completion, \* what the chat completion request of this call did
    result,     \* outcome of extract_invoice_data
    upload,     \* uploaded spreadsheet file: its extension and decoded sheets
    steps,      \* processor: the decoding and normalisation steps run so far
    record,     \* outcome of read_invoice_data_from_file / process_bulk_invoices
    modules,    \* process-wide: guarded imports, the key in os.environ, ai_helper.client
    sessions,   \* per browser session: position in the Extract Data handler
    built       \* process-wide: handles constructed and clicks handled so far

tvars == <<op, df, today, invoices, items, item_src, inv_src>>
mvars == <<header, header_p, bound, bound_p>>
xvars == <<text, extracted>>
rvars == <<reader, file, method, pc, in_try, raw_text, calls, completion, result>>
uvars == <<upload, steps, record>>
pvars == <<modules, sessions, built>>
vars == <<op, df, today, invoices, items, item_src, inv_src,
          header, header_p, bound, bound_p, text, extracted,
          reader, file, method, pc, in_try, raw_text, calls, completion, result,
          upload, steps, record, modules, sessions, built>>

----------------------------------------------------------------------------
(* Bounds of the model *)

MaxRows == 3
MaxItemRows == 2
MaxCols == 3
MaxLines == 2
MaxSessions == 2    \* browser sessions, each run by its own script thread
MaxClicks == 3      \* clicks on Extract Data handled by the process

----------------------------------------------------------------------------
(* Python str primitives *)

Char(s, i) == SubSeq(s, i, i)

UpperAlpha == "ABCDEFGHIJKLMNOPQRSTUVWXYZ"
LowerAlpha == "abcdefghijklmnopqrstuvwxyz"
Digits == "0123456789"

PosIn(c, s) == CHOOSE k \in 1..Len(s) : Char(s, k) = c

CharsOf(s) == {Char(s, k) : k \in 1..Len(s)}
UpperSet == CharsOf(UpperAlpha)
LowerSet == CharsOf(LowerAlpha)
DigitSet == CharsOf(Digits)

IsUpper(c) == c \in UpperSet
IsLower(c) == c \in LowerSet
IsDigit(c) == c \in DigitSet
\* The blanks beyond " ", \n, \t, \r, \f that a string of a module can hold,
\* written between the quotes in this order: U+000B, U+001C, U+001D, U+001E,
\* U+001F, U+0085, U+00A0, U+1680.  (The remaining Unicode blanks, U+2000 to
\* U+200A, U+2028, U+2029, U+202F, U+205F and U+3000, cannot be written in a
\* module; the texts of this model are ASCII texts and these blanks.)
OtherBlanks == "  "
SpaceSet == {" ", "\n", "\t", "\r", "\f"} \cup CharsOf(OtherBlanks)

\* str.isspace() of one character, which is also what str.strip() removes
\* and what \s matches
IsSpace(c) == c \in SpaceSet

\* what float() ignores around a literal: the blanks of C (" ", \t, \n, \r,
\* \f, U+000B) and the blanks beyond ASCII, not U+001C to U+001F
FloatSpaceSet == SpaceSet \ CharsOf(SubSeq(OtherBlanks, 2, 5))

\* str.lower() of one character
LowerOf == [c \in UpperSet |-> Char(LowerAlpha, PosIn(c, UpperAlpha))]
LowerChar(c) == IF IsUpper(c) THEN LowerOf[c] ELSE c

RECURSIVE lower(_)
lower(s) == IF s = "" THEN "" ELSE LowerChar(Head(s)) \o lower(Tail(s))

\* sub in s
Contains(sub, s) ==
    \E i \in 1..(Len(s) - Len(sub) + 1) : SubSeq(s, i, i + Len(sub) - 1) = sub

RECURSIVE lstrip(_)
lstrip(s) == IF s # "" /\ IsSpace(Head(s)) THEN lstrip(Tail(s)) ELSE s

RECURSIVE rstrip(_)
rstrip(s) ==
    IF s # "" /\ IsSpace(Char(s, Len(s))) THEN rstrip(SubSeq(s, 1, Len(s) - 1)) ELSE s

strip(s) == rstrip(lstrip(s))

\* sep.join(parts)
RECURSIVE join(_, _)
join(sep, parts) ==
    IF parts = <<>> THEN ""
    ELSE IF Len(parts) = 1 THEN parts[1]
    ELSE parts[1] \o sep \o join(sep, Tail(parts))

Min(S) == CHOOSE x \in S : \A y \in S : x <= y
Max(S) == CHOOSE x \in S : \A y \in S : x >= y

\* str(n) of a non-negative int
RECURSIVE NatStr(_)
NatStr(n) == IF n < 10 THEN Char(Digits, n + 1)
             ELSE NatStr(n \div 10) \o Char(Digits, (n % 10) + 1)

IntStr(n) == IF n < 0 THEN "-" \o NatStr(0 - n) ELSE NatStr(n)

\* value of a string of decimal digits
RECURSIVE DigitsVal(_)
DigitsVal(s) ==
    IF s = "" THEN 0
    ELSE 10 * DigitsVal(SubSeq(s, 1, Len(s) - 1)) + (PosIn(Char(s, Len(s)), Digits) - 1)

AllDigits(s) == s # "" /\ \A k \in 1..Len(s) : IsDigit(Char(s, k))

----------------------------------------------------------------------------
(* Python values held in cells *)

NaN == [k |-> "nan", n |-> 0, s |-> ""]
None == [k |-> "none", n |-> 0, s |-> ""]
Num(i) == [k |-> "num", n |-> i, s |-> ""]
\* a number of a float64 column or Series (numpy.float64): the field s holds
\* what str() writes after the integer part
Float64(i) == [k |-> "num", n |-> i, s |-> ".0"]
Str(t) == [k |-> "str", n |-> 0, s |-> t]

notna(c) == c.k # "nan"

\* bool(x): None, 0 and "" are falsy
Truthy(c) == CASE c.k = "none" -> FALSE
               [] c.k = "num" -> c.n # 0
               [] c.k = "str" -> c.s # ""
               [] OTHER -> TRUE

\* str(x): "7" for an int, "7.0" for a float
PyStr(c) == CASE c.k = "nan" -> "nan"
              [] c.k = "none" -> "None"
              [] c.k = "num" -> IntStr(c.n) \o c.s
              [] OTHER -> c.s

\* the cell in a float64 column or Series: an int becomes a float
astype_float(c) == IF c.k = "num" THEN Float64(c.n) ELSE c

\* s without the character ch
RECURSIVE Without(_, _)
Without(s, ch) ==
    IF s = "" THEN "" ELSE (IF Head(s) = ch THEN "" ELSE Head(s)) \o Without(Tail(s), ch)

\* a run of digits in which single underscores may separate digits (PEP 515)
DigitGroups(s) ==
    /\ s # ""
    /\ \A k \in 1..Len(s) : IsDigit(Char(s, k)) \/ Char(s, k) = "_"
    /\ IsDigit(Char(s, 1)) /\ IsDigit(Char(s, Len(s)))
    /\ \A k \in 1..(Len(s) - 1) : ~(Char(s, k) = "_" /\ Char(s, k + 1) = "_")

\* position of the decimal point of s, Len(s) + 1 when it has none
PointAt(s) ==
    IF \E k \in 1..Len(s) : Char(s, k) = "."
    THEN Min({k \in 1..Len(s) : Char(s, k) = "."}) ELSE Len(s) + 1

\* digits, then optionally a point and digits; one of the two digit runs
\* may be missing when the point is there.  The mantissa is v / 10^places:
\* v is the number all its digits write, places the count of fraction digits
Mantissa(body) ==
    LET whole == SubSeq(body, 1, PointAt(body) - 1)
        frac == SubSeq(body, PointAt(body) + 1, Len(body))
    IN IF /\ whole = "" \/ DigitGroups(whole)
          /\ frac = "" \/ DigitGroups(frac)
          /\ whole # "" \/ frac # ""
       THEN [ok |-> TRUE, v |-> DigitsVal(Without(whole \o frac, "_")),
             places |-> Len(Without(frac, "_"))]
       ELSE [ok |-> FALSE, v |-> 0, places |-> 0]

\* position of the exponent mark of s, Len(s) + 1 when it has none
ExponentAt(s) ==
    IF \E k \in 1..Len(s) : Char(s, k) \in {"e", "E"}
    THEN Min({k \in 1..Len(s) : Char(s, k) \in {"e", "E"}}) ELSE Len(s) + 1

RECURSIVE TenTo(_)
TenTo(n) == IF n <= 0 THEN 1 ELSE 10 * TenTo(n - 1)

\* v * 10^e
Shifted(v, e) == IF e >= 0 THEN v * TenTo(e) ELSE v \div TenTo(0 - e)

\* the exponent written in e: digits after an optional sign
ExponentVal(e) ==
    IF Head(e) = "-" THEN 0 - DigitsVal(Without(Tail(e), "_"))
    ELSE DigitsVal(Without(IF Head(e) = "+" THEN Tail(e) ELSE e, "_"))

\* the mantissa m scaled by the exponent written in e (optionally signed)
Scaled(m, e) ==
    IF e = "" \/ ~DigitGroups(IF Head(e) \in {"+", "-"} THEN Tail(e) ELSE e)
    THEN [ok |-> FALSE, v |-> 0]
    ELSE [ok |-> m.ok, v |-> Shifted(m.v, ExponentVal(e) - m.places)]

\* float() of an unsigned literal: a mantissa, then optionally an exponent
UnsignedFloat(body) ==
    IF ExponentAt(body) > Len(body) THEN Scaled(Mantissa(body), "0")
    ELSE Scaled(Mantissa(SubSeq(body, 1, ExponentAt(body) - 1)),
                SubSeq(body, ExponentAt(body) + 1, Len(body)))

Negated(r) == [ok |-> r.ok, v |-> 0 - r.v]

\* the literal without the blanks float() ignores around it
RECURSIVE FloatBody(_)
FloatBody(s) ==
    IF s # "" /\ Head(s) \in FloatSpaceSet THEN FloatBody(Tail(s))
    ELSE IF s # "" /\ Char(s, Len(s)) \in FloatSpaceSet
    THEN FloatBody(SubSeq(s, 1, Len(s) - 1))
    ELSE s

\* float(x) of a non-missing cell: [ok |-> FALSE] stands for ValueError.
\* A str is numeric when, without the blanks around it, it is an optionally
\* signed decimal literal.  The numbers of this model are integers: its strings denote
\* integers (the digits of the fraction may be any, as long as the exponent
\* leaves no fraction: "1.5e1" is 15) and are never "inf", "infinity" or
\* "nan"; their exponents are small enough for the value to be an int.
SignedFloat(body) ==
    IF body = "" THEN [ok |-> FALSE, v |-> 0]
    ELSE IF Head(body) = "-" THEN Negated(UnsignedFloat(Tail(body)))
    ELSE IF Head(body) = "+" THEN UnsignedFloat(Tail(body))
    ELSE UnsignedFloat(body)

PyFloat(c) ==
    IF c.k = "num" THEN [ok |-> TRUE, v |-> c.n] ELSE SignedFloat(FloatBody(c.s))

\* datetime.now().strftime('%Y%m%d') and ('%Y-%m-%d')
Pad2(n) == IF n < 10 THEN "0" \o NatStr(n) ELSE NatStr(n)
Pad4(n) == IF n < 10 THEN "000" \o NatStr(n)
           ELSE IF n < 100 THEN "00" \o NatStr(n)
           ELSE IF n < 1000 THEN "0" \o NatStr(n)
           ELSE NatStr(n)
StrfCompact(d) == Pad4(d.y) \o Pad2(d.m) \o Pad2(d.d)
StrfDashed(d) == Pad4(d.y) \o "-" \o Pad2(d.m) \o "-" \o Pad2(d.d)

\* Outcome of a call: a returned value or a raised exception
Return(v) == [tag |-> "return", val |-> v]
Raise(e) == [tag |-> "raise", exc |-> e]

----------------------------------------------------------------------------
(* DataFrame primitives *)

\* the dtype pandas gives a column of cells: numbers alone are int64, numbers
\* with a missing value (or missing values alone) are float64, anything with
\* text, and a column without rows, is object
dtype(cells) ==
    IF cells = <<>> \/ \E k \in 1..Len(cells) : cells[k].k \notin {"num", "nan"}
    THEN "object"
    ELSE IF \E k \in 1..Len(cells) : cells[k].k = "nan" \/ cells[k].s # ""
    THEN "float64" ELSE "int64"

ColumnOf(rws, c) == [i \in 1..Len(rws) |-> rws[i][c]]

\* the cells as the columns of those dtypes hold them
AsTyped(rws, types) ==
    [i \in 1..Len(rws) |->
        [c \in 1..Len(types) |->
            IF types[c] = "float64" THEN astype_float(rws[i][c]) ELSE rws[i][c]]]

Typed(cols, idx, rws, types) ==
    [columns |-> cols, index |-> idx, rows |-> AsTyped(rws, types), dtypes |-> types]

\* the table a decoder (pd.read_csv, pd.read_excel) builds from the cells
Frame(cols, idx, rws) ==
    Typed(cols, idx, rws, [c \in 1..Len(cols) |-> dtype(ColumnOf(rws, c))])

\* pd.read_csv: in a column that holds text, a number is the text of the file
CsvCell(cells, cell) ==
    IF cell.k = "num" /\ \E k \in 1..Len(cells) : cells[k].k = "str"
    THEN Str(IntStr(cell.n)) ELSE cell

read_csv(d) ==
    Frame(d.columns, d.index,
          [i \in 1..Len(d.rows) |->
              [c \in 1..Len(d.columns) |-> CsvCell(ColumnOf(d.rows, c), d.rows[i][c])]])

\* the Series of row i (df.iterrows(), df.iloc[i]): its dtype is the common
\* dtype of the columns, so every number is a float when all columns are
\* numeric and one of them is float64
Series(d, i) ==
    IF /\ \A c \in 1..Len(d.dtypes) : d.dtypes[c] # "object"
       /\ \E c \in 1..Len(d.dtypes) : d.dtypes[c] = "float64"
    THEN [c \in 1..Len(d.columns) |-> astype_float(d.rows[i][c])]
    ELSE d.rows[i]

\* the rows as df.iterrows() yields them
iterrows(d) == [i \in 1..Len(d.rows) |-> Series(d, i)]

\* df.empty
empty(d) == Len(d.rows) = 0 \/ Len(d.columns) = 0

\* pd.isna(row).all()
AllNa(row) == \A j \in 1..Len(row) : ~notna(row[j])

\* keep the rows at the given positions, in order
RECURSIVE SelectRows(_, _)
SelectRows(d, ps) ==
    IF ps = <<>> THEN [d EXCEPT !.index = <<>>, !.rows = <<>>]
    ELSE LET rest == SelectRows(d, Tail(ps))
         IN [d EXCEPT !.index = <<d.index[Head(ps)]>> \o rest.index,
                      !.rows = <<d.rows[Head(ps)]>> \o rest.rows]

\* positions 1..n satisfying P, ascending
RECURSIVE Positions(_, _, _)
Positions(n, k, S) ==
    IF k > n THEN <<>>
    ELSE (IF k \in S THEN <<k>> ELSE <<>>) \o Positions(n, k + 1, S)

\* df[df[col] == key]
RowsWhere(d, c, key) ==
    SelectRows(d, Positions(Len(d.rows), 1, {i \in 1..Len(d.rows) : d.rows[i][c] = key}))

\* df[col].dropna().unique(): distinct non-missing values, first appearance first
RECURSIVE unique(_, _, _)
unique(d, c, i) ==
    IF i > Len(d.rows) THEN <<>>
    ELSE LET v == d.rows[i][c]
         IN (IF notna(v) /\ \A j \in 1..(i - 1) : d.rows[j][c] # v THEN <<v>> ELSE <<>>)
            \o unique(d, c, i + 1)

----------------------------------------------------------------------------
(* Column mapper and line-item extraction: _extract_line_items_from_df *)

ColTypes == <<"description", "quantity", "rate", "total">>

column_mapping ==
    [description |-> <<"description", "item", "service", "product", "details">>,
     quantity |-> <<"quantity", "qty", "amount", "units">>,
     rate |-> <<"rate", "price", "unit_price", "cost", "amount">>,
     total |-> <<"total", "line_total", "amount">>]

\* inner loop: position of the first column whose lower-cased label contains
\* the variation, 0 when there is none
\* Mutation: the inner loop keeps the last column containing the variation
\* instead of stopping at the first.
LastColumnWith(cols, variation) ==
    LET hits == {i \in 1..Len(cols) : Contains(variation, lower(cols[i]))}
    IN IF hits = {} THEN 0 ELSE Max(hits)

FirstColumnWith(cols, variation) ==
    LET hits == {i \in 1..Len(cols) : Contains(variation, lower(cols[i]))}
    IN IF hits = {} THEN 0 ELSE Min(hits)

\* the variation (position in the list) that binds the role, 0 when none does:
\* variations are tried in list order and the loop stops at the first one
\* that matched a column with a truthy label
WinningVariation(cols, variations) ==
    LET hits == {j \in 1..Len(variations) :
                    /\ FirstColumnWith(cols, variations[j]) # 0
                    /\ cols[FirstColumnWith(cols, variations[j])] # ""}
    IN IF hits = {} THEN 0 ELSE Min(hits)

\* Mutation: the role is bound header-first (the first column containing any
\* variation) instead of variation-first.
BindColumnHeaderFirst(cols, variations) ==
    LET hits == {i \in 1..Len(cols) :
                    \E j \in 1..Len(variations) : Contains(variations[j], lower(cols[i]))}
    IN IF hits = {} THEN 0 ELSE Min(hits)

\* columns[col_type]: position of the bound column, 0 for None
BindColumn(cols, variations) ==
    LET w == WinningVariation(cols, variations)
    IN IF w = 0 THEN 0 ELSE FirstColumnWith(cols, variations[w])

MapColumns(cols) ==
    [t \in {ColTypes[k] : k \in 1..Len(ColTypes)} |-> BindColumn(cols, column_mapping[t])]

\* the label a role is bound to ("" for None)
BoundLabel(cols, b) == IF b = 0 THEN "" ELSE cols[b]

\* item["description"]
ItemDescription(row, columns) ==
    IF columns.description # 0 /\ notna(row[columns.description])
    THEN PyStr(row[columns.description]) ELSE ""

\* row[columns[role]] when the role is bound, a missing value otherwise
ColumnCell(row, b) == IF b # 0 THEN row[b] ELSE NaN

\* try: float(...) except (ValueError, TypeError): the default
ParsedOr(parsed, dflt) == IF parsed.ok THEN parsed.v ELSE dflt

FloatOr(cell, dflt) == IF notna(cell) THEN ParsedOr(PyFloat(cell), dflt) ELSE dflt

\* item["quantity"]
ItemQuantity(row, columns) == FloatOr(ColumnCell(row, columns.quantity), 1)

\* item["rate"]
ItemRate(row, columns) == FloatOr(ColumnCell(row, columns.rate), 0)

\* Mutation: an item is also kept when its rate is exactly 0.
KeepItemNonNegative(item) == item.description # "" \/ item.rate >= 0

\* "Only add if we have some content"
KeepItem(item) == item.description # "" \/ item.rate > 0

BuildItem(row, columns) ==
    [description |-> ItemDescription(row, columns),
     quantity |-> ItemQuantity(row, columns),
     rate |-> ItemRate(row, columns)]

\* one iteration: rows that are entirely missing are skipped, the others
\* append their item when it is kept
RowItem(idx, row, item) ==
    IF ~AllNa(row) /\ KeepItem(item) THEN <<[idx |-> idx, item |-> item]>> ELSE <<>>

\* the loop over df.iterrows() from row k on: pairs <<index label, item>>
RECURSIVE ItemRows(_, _, _)
ItemRows(d, columns, k) ==
    IF k > Len(d.rows) THEN <<>>
    ELSE RowItem(d.index[k], Series(d, k), BuildItem(Series(d, k), columns))
         \o ItemRows(d, columns, k + 1)

ItemsOf(r) == [k \in 1..Len(r) |-> r[k].item]
IndexOf(r) == [k \in 1..Len(r) |-> r[k].idx]

_extract_line_items_from_df(d) == ItemsOf(ItemRows(d, MapColumns(d.columns), 1))

\* index labels of the rows behind each returned item
ItemSources(d) == IndexOf(ItemRows(d, MapColumns(d.columns), 1))

----------------------------------------------------------------------------
(* Single-record normalisation: _process_csv_data and its parsers.         *)
(* In a record, client.name and invoice.number hold Python values (the     *)
(* segmenter stores the raw key there); every other text field is a str.   *)

Business(name) == [name |-> name, address |-> "", email |-> "", phone |-> ""]
Client(name, address, email) == [name |-> name, address |-> address, email |-> email]
Invoice(number, date) ==
    [number |-> number, date |-> date, due_date |-> "", currency |-> "USD"]
InvoiceData(business, client, invoice, its, notes) ==
    [business |-> business, client |-> client, invoice |-> invoice,
     items |-> its, notes |-> notes, tax_rate |-> 0]

\* f"INV-{datetime.now().strftime('%Y%m%d')}"
GeneratedNumber(now) == "INV-" \o StrfCompact(now)

\* the cells of the frame, row-major
RECURSIVE Flatten(_, _)
Flatten(rws, k) == IF k > Len(rws) THEN <<>> ELSE rws[k] \o Flatten(rws, k + 1)

\* number of the indicators that occur in s
CountIn(indicators, s) ==
    Cardinality({j \in 1..Len(indicators) : Contains(indicators[j], s)})

StructuredIndicators ==
    <<"business name", "client name", "invoice number", "description", "quantity", "rate">>

LineItemIndicators == <<"description", "quantity", "qty", "rate", "price", "amount">>

\* Mutation: the Structured threshold is 2 keywords instead of 3.
StructuredAtTwo(d) ==
    CountIn(StructuredIndicators,
            lower(join(" ", [k \in 1..Len(Flatten(d.rows, 1)) |->
                                 PyStr(Flatten(d.rows, 1)[k])]))) >= 2

_is_structured_format(d) ==
    LET cells == Flatten(d.rows, 1)
        text_content == lower(join(" ", [k \in 1..Len(cells) |-> PyStr(cells[k])]))
    IN CountIn(StructuredIndicators, text_content) >= 3

_is_line_items_format(d) ==
    LET columns == [k \in 1..Len(d.columns) |-> lower(d.columns[k])]
    IN CountIn(LineItemIndicators, join(" ", columns)) >= 2

\* text_data: str of every non-missing cell, row-major
RECURSIVE Tokens(_)
Tokens(cells) ==
    IF cells = <<>> THEN <<>>
    ELSE (IF notna(Head(cells)) THEN <<PyStr(Head(cells))>> ELSE <<>>) \o Tokens(Tail(cells))

KeyPhrases ==
    <<"business name", "business email", "business phone",
      "client name", "client email", "invoice number">>

\* the branch of the if/elif chain taken for token i (0: none)
PhraseAt(text_data, i) ==
    LET hits == {j \in 1..Len(KeyPhrases) :
                    Contains(KeyPhrases[j], lower(text_data[i])) /\ i + 1 <= Len(text_data)}
    IN IF hits = {} THEN 0 ELSE Min(hits)

\* Mutation: the first occurrence of a label wins instead of the last.
ScannedFirst(text_data, j) ==
    LET at == {i \in 1..Len(text_data) : PhraseAt(text_data, i) = j}
    IN IF at = {} THEN "" ELSE text_data[Min(at) + 1]

\* value left in the field of phrase j after the scan (the last assignment)
ScannedValue(text_data, j) ==
    LET at == {i \in 1..Len(text_data) : PhraseAt(text_data, i) = j}
    IN IF at = {} THEN "" ELSE text_data[Max(at) + 1]

_parse_structured_format(d) ==
    LET text_data == Tokens(Flatten(iterrows(d), 1))
    IN [business |-> [name |-> ScannedValue(text_data, 1), address |-> "",
                      email |-> ScannedValue(text_data, 2),
                      phone |-> ScannedValue(text_data, 3)],
        client |-> Client(Str(ScannedValue(text_data, 4)), "", ScannedValue(text_data, 5)),
        invoice |-> [number |-> Str(ScannedValue(text_data, 6)), date |-> "",
                     due_date |-> "", currency |-> "USD"],
        items |-> _extract_line_items_from_df(d),
        notes |-> "",
        tax_rate |-> 0]

_parse_line_items_format(d, now) ==
    InvoiceData(Business("Your Business"), Client(Str("Client"), "", ""),
                Invoice(Str(GeneratedNumber(now)), StrfDashed(now)),
                _extract_line_items_from_df(d), "")

\* the record every generic import shares
GenericInvoice(its, now) ==
    InvoiceData(Business("Your Business"), Client(Str("Client"), "", ""),
                Invoice(Str(GeneratedNumber(now)), StrfDashed(now)),
                its, "Imported from uploaded file")

\* "Create default item from first row"; float() of the second cell may raise
DefaultRate(first_row) ==
    IF Len(first_row) > 1 /\ notna(first_row[2]) THEN PyFloat(first_row[2])
    ELSE [ok |-> TRUE, v |-> 100]

DefaultItemFrom(first_row, second) ==
    IF ~second.ok THEN Raise("ValueError")
    ELSE Return([description |-> IF Len(first_row) > 0 THEN PyStr(first_row[1])
                                 ELSE "Service",
                 quantity |-> 1,
                 rate |-> second.v])

DefaultItem(d) == DefaultItemFrom(Series(d, 1), DefaultRate(Series(d, 1)))

WithDefault(default, now) ==
    IF default.tag = "raise" THEN default
    ELSE Return(GenericInvoice(<<default.val>>, now))

GenericFrom(d, its, now) ==
    IF its # <<>> THEN Return(GenericInvoice(its, now))
    ELSE IF empty(d) THEN Return(GenericInvoice(<<>>, now))
    ELSE WithDefault(DefaultItem(d), now)

_parse_generic_format(d, now) == GenericFrom(d, _extract_line_items_from_df(d), now)

\* except Exception as e: raise Exception(f"Error processing ...: {str(e)}")
WrapException(r) == IF r.tag = "raise" THEN Raise("Exception") ELSE r

_process_csv_data(d, now) ==
    IF _is_structured_format(d) THEN Return(_parse_structured_format(d))
    ELSE IF _is_line_items_format(d) THEN Return(_parse_line_items_format(d, now))
    ELSE WrapException(_parse_generic_format(d, now))

----------------------------------------------------------------------------
(* Bulk segmentation: _create_invoice_from_rows, _extract_multiple_invoices *)

\* the branch of the if/elif chain a column takes in the loop over rows.columns
ContactKind(col) ==
    LET c == lower(col)
    IN IF Contains("email", c) /\ Contains("client", c) THEN "email"
       ELSE IF Contains("address", c) /\ Contains("client", c) THEN "address"
       ELSE "other"

\* str of the first row's cell in the last column of that kind ("" when the
\* cell is missing or when no column is of that kind)
LastColumnValue(rws, kind) ==
    LET hits == {i \in 1..Len(rws.columns) : ContactKind(rws.columns[i]) = kind}
    IN IF hits = {} \/ ~notna(rws.rows[1][Max(hits)]) THEN ""
       ELSE PyStr(Series(rws, 1)[Max(hits)])

\* invoice_number or f"INV-{...}-{len(str(client_name or ''))[:3]}": the
\* subscript [:3] is applied to the int that len() returns, so evaluating
\* the f-string raises TypeError
InvoiceNumberOrGenerated(client_name, invoice_number, now) ==
    IF Truthy(invoice_number) THEN Return(invoice_number) ELSE Raise("TypeError")

BuildInvoice(rws, client_name, number, now) ==
    IF number.tag = "raise" THEN number
    ELSE Return(InvoiceData(
             Business("Your Business"),
             Client(IF Truthy(client_name) THEN client_name ELSE Str("Client"),
                    LastColumnValue(rws, "address"), LastColumnValue(rws, "email")),
             Invoice(number.val, StrfDashed(now)),
             _extract_line_items_from_df(rws), ""))

_create_invoice_from_rows(rws, client_name, invoice_number, now) ==
    IF empty(rws) THEN Return(None)
    ELSE BuildInvoice(rws, client_name,
                      InvoiceNumberOrGenerated(client_name, invoice_number, now), now)

\* "if invoice_data: invoices.append(invoice_data)", the invoice paired with
\* the index labels of its rows
Appended(g, r) ==
    IF r.tag = "raise" THEN r
    ELSE Return(IF r.val # None THEN <<[invoice |-> r.val, rows |-> g.index]>> ELSE <<>>)

\* one iteration of either loop on the rows g of a key
GroupInvoice(g, key, by, now) ==
    Appended(g, _create_invoice_from_rows(g, IF by = "client" THEN key ELSE None,
                                          IF by = "client" THEN None ELSE key, now))

\* the first exception ends the loop
Then(r, rest) ==
    IF r.tag = "raise" THEN r
    ELSE IF rest.tag = "raise" THEN rest
    ELSE Return(r.val \o rest.val)

\* the loop over the unique keys from key k on
RECURSIVE GroupLoop(_, _, _, _, _, _)
GroupLoop(d, c, keys, k, by, now) ==
    IF k > Len(keys) THEN Return(<<>>)
    ELSE Then(GroupInvoice(RowsWhere(d, c, keys[k]), keys[k], by, now),
              GroupLoop(d, c, keys, k + 1, by, now))

\* the first column whose label contains 'client' or 'customer' (0: none)
ClientColumn(cols) ==
    LET hits == {i \in 1..Len(cols) :
                    Contains("client", lower(cols[i])) \/ Contains("customer", lower(cols[i]))}
    IN IF hits = {} THEN 0 ELSE Min(hits)

\* the first column whose label names an invoice number (0: none)
InvoiceNumColumn(cols) ==
    LET hits == {i \in 1..Len(cols) :
                    /\ Contains("invoice", lower(cols[i]))
                    /\ \/ Contains("number", lower(cols[i]))
                       \/ Contains("num", lower(cols[i]))
                       \/ Contains("#", cols[i])}
    IN IF hits = {} THEN 0 ELSE Min(hits)

\* which method the segmenter takes
GroupingMethod(d) ==
    LET joined == lower(join(" ", d.columns))
    IN IF (Contains("client", joined) \/ Contains("customer", joined))
          /\ ClientColumn(d.columns) # 0 /\ d.columns[ClientColumn(d.columns)] # ""
       THEN "client"
       ELSE IF InvoiceNumColumn(d.columns) # 0
               /\ d.columns[InvoiceNumColumn(d.columns)] # ""
       THEN "invoice" ELSE "single"

\* Method 3: the whole table as one invoice
SingleInvoice(d, single) ==
    IF single.tag = "raise" THEN single
    ELSE Return(<<[invoice |-> single.val, rows |-> d.index]>>)

GroupBy(d, c, by, now) == GroupLoop(d, c, unique(d, c, 1), 1, by, now)

SegmentBy(d, by, now) ==
    IF by = "single" THEN SingleInvoice(d, _process_csv_data(d, now))
    ELSE GroupBy(d, IF by = "client" THEN ClientColumn(d.columns)
                    ELSE InvoiceNumColumn(d.columns), by, now)

Segment(d, now) == SegmentBy(d, GroupingMethod(d), now)

InvoicesOf(r) ==
    IF r.tag = "raise" THEN r ELSE Return([k \in 1..Len(r.val) |-> r.val[k].invoice])

SourcesOf(r) ==
    IF r.tag = "raise" THEN <<>> ELSE [k \in 1..Len(r.val) |-> r.val[k].rows]

_extract_multiple_invoices(d, now) == InvoicesOf(Segment(d, now))

\* index labels of the rows behind each returned invoice
InvoiceSources(d, now) == SourcesOf(Segment(d, now))

\* for a supported extension: every exception is re-raised as
\* Exception("Error processing bulk file: ...")
process_bulk_invoices(d, now) == WrapException(_extract_multiple_invoices(d, now))

----------------------------------------------------------------------------
(* Uploaded spreadsheet files: read_invoice_data_from_file, the workbook   *)
(* path _process_excel_data and the extension check of both entry points.  *)
(* An upload is [name, sheets]; sheets is the sequence of [name, df] that   *)
(* pd.read_excel(sheet_name=None) returns (one sheet for a CSV file).       *)

RaiseMsg(e, msg) == [tag |-> "raise", exc |-> e, msg |-> msg]

\* positions of "." in the name
Dots(name) == {i \in 1..Len(name) : Char(name, i) = "."}

\* uploaded_file.name.lower().split('.')[-1]
file_extension(name) ==
    IF Dots(name) = {} THEN lower(name)
    ELSE lower(SubSeq(name, Max(Dots(name)) + 1, Len(name)))

\* CSVExcelProcessor.supported_formats
processor_formats == {"csv", "xlsx", "xls"}

InfoWords == <<"info", "details", "header", "main">>
ItemsWords == <<"items", "lines", "products", "services">>

AnyWordIn(words, s) == \E j \in 1..Len(words) : Contains(words[j], s)

\* the branch of the if/elif a sheet name takes
SheetKind(sheet_name) ==
    IF AnyWordIn(InfoWords, lower(sheet_name)) THEN "info"
    ELSE IF AnyWordIn(ItemsWords, lower(sheet_name)) THEN "items"
    ELSE "other"

\* the sheet left in info_sheet / items_sheet after the loop (0: None)
SheetOfKind(sheets, kind) ==
    LET hits == {i \in 1..Len(sheets) : SheetKind(sheets[i].name) = kind}
    IN IF hits = {} THEN 0 ELSE Max(hits)

\* the branch of the if/elif chain a key of the info sheet takes
InfoField(key) ==
    CASE Contains("business", key) /\ Contains("name", key) -> "business.name"
      [] Contains("business", key) /\ Contains("email", key) -> "business.email"
      [] Contains("business", key) /\ Contains("phone", key) -> "business.phone"
      [] Contains("client", key) /\ Contains("name", key) -> "client.name"
      [] Contains("client", key) /\ Contains("email", key) -> "client.email"
      [] Contains("invoice", key) /\ Contains("number", key) -> "invoice.number"
      [] Contains("tax", key) -> "tax"
      [] OTHER -> "none"

\* key and value of row i: str(row.iloc[0]).lower() and str(row.iloc[1]) or ""
InfoKey(d, i) == lower(PyStr(Series(d, i)[1]))
InfoValue(d, i) == IF notna(Series(d, i)[2]) THEN PyStr(Series(d, i)[2]) ELSE ""

\* rows that assign the field (rows shorter than two cells assign nothing)
InfoRows(d, field) ==
    {i \in 1..Len(d.rows) : Len(d.columns) >= 2 /\ InfoField(InfoKey(d, i)) = field}

\* the value the field holds after the loop: its last assignment
InfoOf(d, field) ==
    IF InfoRows(d, field) = {} THEN "" ELSE InfoValue(d, Max(InfoRows(d, field)))

\* data["tax_rate"]: the last tax row whose value float() accepts
TaxRows(d) == {i \in InfoRows(d, "tax") : PyFloat(Str(InfoValue(d, i))).ok}

TaxRate(d) ==
    IF TaxRows(d) = {} THEN 0 ELSE PyFloat(Str(InfoValue(d, Max(TaxRows(d))))).v

_parse_info_sheet(d) ==
    [business |-> [name |-> InfoOf(d, "business.name"), address |-> "",
                   email |-> InfoOf(d, "business.email"),
                   phone |-> InfoOf(d, "business.phone")],
     client |-> Client(Str(InfoOf(d, "client.name")), "", InfoOf(d, "client.email")),
     invoice |-> [number |-> Str(InfoOf(d, "invoice.number")), date |-> "",
                  due_date |-> "", currency |-> "USD"],
     notes |-> "",
     tax_rate |-> TaxRate(d)]

_parse_items_sheet(d) == _extract_line_items_from_df(d)

\* invoice_data.update(info_data); invoice_data["items"] = items
\* the workbook record when the info data is not merged into the initial
\* dictionary, whose business, client and invoice groups are empty
WorkbookNotUpdated(info_data, its) ==
    [business |-> <<>>, client |-> <<>>, invoice |-> <<>>, items |-> its,
     notes |-> "", tax_rate |-> 0]

WorkbookRecord(info_data, its) ==
    [business |-> info_data.business, client |-> info_data.client,
     invoice |-> info_data.invoice, items |-> its, notes |-> info_data.notes,
     tax_rate |-> info_data.tax_rate]

\* both named sheets were found among more than one sheet
HasInfoAndItems(sheets) ==
    Len(sheets) > 1 /\ SheetOfKind(sheets, "info") # 0 /\ SheetOfKind(sheets, "items") # 0

_process_excel_data(sheets, now) ==
    IF HasInfoAndItems(sheets)
    THEN Return(WorkbookRecord(_parse_info_sheet(sheets[SheetOfKind(sheets, "info")].df),
                               _parse_items_sheet(sheets[SheetOfKind(sheets, "items")].df)))
    ELSE WrapException(_process_csv_data(sheets[1].df, now))

Unsupported(prefix, name) ==
    RaiseMsg("Exception", prefix \o "Unsupported file format: " \o file_extension(name))

\* Mutation: the extension is not checked; every file that is not a CSV
\* file is read as a workbook.
ReadUnchecked(up, now) ==
    IF file_extension(up.name) = "csv"
    THEN WrapException(_process_csv_data(up.sheets[1].df, now))
    ELSE WrapException(_process_excel_data(up.sheets, now))

read_invoice_data_from_file(up, now) ==
    IF file_extension(up.name) \notin processor_formats
    THEN Unsupported("Error reading file: ", up.name)
    ELSE IF file_extension(up.name) = "csv"
    THEN WrapException(_process_csv_data(up.sheets[1].df, now))
    ELSE WrapException(_process_excel_data(up.sheets, now))

\* process_bulk_invoices on the uploaded file: the first sheet is segmented
process_bulk_file(up, now) ==
    IF file_extension(up.name) \notin processor_formats
    THEN Unsupported("Error processing bulk file: ", up.name)
    ELSE process_bulk_invoices(up.sheets[1].df, now)

\* the parser the if/elif/else of _process_csv_data hands the table to
Parser(d) ==
    IF _is_structured_format(d) THEN "_parse_structured_format"
    ELSE IF _is_line_items_format(d) THEN "_parse_line_items_format"
    ELSE "_parse_generic_format"

\* the decoding and normalisation steps read_invoice_data_from_file runs
ReadSteps(up) ==
    IF file_extension(up.name) \notin processor_formats THEN <<>>
    ELSE IF file_extension(up.name) = "csv"
    THEN <<"read_csv", "_process_csv_data", Parser(up.sheets[1].df)>>
    ELSE IF HasInfoAndItems(up.sheets)
    THEN <<"read_excel", "_process_excel_data", "_parse_info_sheet", "_parse_items_sheet">>
    ELSE <<"read_excel", "_process_excel_data", "_process_csv_data",
           Parser(up.sheets[1].df)>>

\* Method 3 of the segmenter hands the whole table to _process_csv_data,
\* which runs one parser; the two grouping methods run neither
SegmentSteps(d) ==
    IF GroupingMethod(d) = "single" THEN <<"_process_csv_data", Parser(d)>> ELSE <<>>

\* the decoding and normalisation steps process_bulk_invoices runs
BulkSteps(up) ==
    IF file_extension(up.name) \notin processor_formats THEN <<>>
    ELSE <<IF file_extension(up.name) = "csv" THEN "read_csv" ELSE "read_excel",
           "_extract_multiple_invoices">> \o SegmentSteps(up.sheets[1].df)

----------------------------------------------------------------------------
(* Pattern-based text extraction: InvoiceReader._rule_based_extraction     *)

IsAlnum(c) == IsUpper(c) \/ IsLower(c) \/ IsDigit(c)
IsWordCh(c) == IsAlnum(c) \/ c = "_"

\* the character at p, "" outside the text
At(t, p) == IF p >= 1 /\ p <= Len(t) THEN Char(t, p) ELSE ""

\* \b before position p
WordBoundary(t, p) ==
    (At(t, p - 1) # "" /\ IsWordCh(At(t, p - 1))) # (At(t, p) # "" /\ IsWordCh(At(t, p)))

IsLocalCh(c) == IsAlnum(c) \/ c \in {".", "_", "%", "+", "-"}
IsDomainCh(c) == IsAlnum(c) \/ c \in {".", "-"}
IsTldCh(c) == IsUpper(c) \/ IsLower(c) \/ c = "|"
IsIdCh(c) == IsAlnum(c) \/ c = "-"
IsAmountCh(c) == IsDigit(c) \/ c = ","

\* the character classes of the patterns: \s, [A-Z0-9-] under (?i), [0-9,], \d
InClass(cls, c) == CASE cls = "space" -> IsSpace(c)
                     [] cls = "id" -> IsIdCh(c)
                     [] cls = "amount" -> IsAmountCh(c)
                     [] OTHER -> IsDigit(c)

\* first position >= p whose character is not in the class (greedy run)
RECURSIVE RunEnd(_, _, _)
RunEnd(t, p, cls) ==
    IF p <= Len(t) /\ InClass(cls, Char(t, p)) THEN RunEnd(t, p + 1, cls) ELSE p

SkipSpaces(t, p) == RunEnd(t, p, "space")
SkipOpt(t, p, c) == IF At(t, p) = c THEN p + 1 ELSE p

\* case-insensitive literal at position p
LitAt(t, p, lit) ==
    p + Len(lit) - 1 <= Len(t) /\ lower(SubSeq(t, p, p + Len(lit) - 1)) = lit

\* \b[A-Za-z0-9._%+-]+@[A-Za-z0-9.-]+\.[A-Z|a-z]{2,}\b matched at '@' position a:
\* the ends e of the domain part for which the rest matches, and for a domain
\* end e the ends f of the whole match
EmailEnds(t, e) ==
    {f \in (e + 3)..Len(t) :
        /\ \A k \in (e + 2)..f : IsTldCh(Char(t, k))
        /\ WordBoundary(t, f + 1)}

EmailDomainEnds(t, a) ==
    {e \in (a + 1)..Len(t) :
        /\ \A k \in (a + 1)..e : IsDomainCh(Char(t, k))
        /\ At(t, e + 1) = "."
        /\ EmailEnds(t, e) # {}}

\* the starts s of a match whose '@' is at a
EmailStarts(t, a) ==
    {s \in 1..(a - 1) :
        /\ \A k \in s..(a - 1) : IsLocalCh(Char(t, k))
        /\ WordBoundary(t, s)
        /\ EmailDomainEnds(t, a) # {}}

\* re.findall(email_pattern, text)[0], "" when there is no match
FirstEmail(t) ==
    LET ats == {a \in 1..Len(t) : Char(t, a) = "@" /\ EmailStarts(t, a) # {}}
    IN IF ats = {} THEN ""
       ELSE LET s == Min(UNION {EmailStarts(t, a) : a \in ats})
                a == Min({x \in ats : s \in EmailStarts(t, x)})
                e == Max(EmailDomainEnds(t, a))
                f == Max(EmailEnds(t, e))
            IN SubSeq(t, s, f)

\* position where the capture group starts when the prefix of the pattern
\* matches at p, 0 when it does not
\*   1: invoice\s*#?\s*:?\s*     2: inv\s*#?\s*:?\s*
\*   3: invoice\s*number\s*:?\s*
InvoicePrefix(t, p, n) ==
    LET hash(q) == SkipSpaces(t, SkipOpt(t, SkipSpaces(t, q), "#"))
        colon(q) == SkipSpaces(t, SkipOpt(t, q, ":"))
    IN CASE n = 1 -> IF LitAt(t, p, "invoice") THEN colon(hash(p + 7)) ELSE 0
         [] n = 2 -> IF LitAt(t, p, "inv") THEN colon(hash(p + 3)) ELSE 0
         [] OTHER -> IF LitAt(t, p, "invoice") /\ LitAt(t, SkipSpaces(t, p + 7), "number")
                     THEN colon(SkipSpaces(t, SkipSpaces(t, p + 7) + 6)) ELSE 0

\* re.search(invoice_patterns[n], text): group(1), "" when there is no match
InvoiceSearch(t, n) ==
    LET hits == {p \in 1..Len(t) :
                    /\ InvoicePrefix(t, p, n) # 0
                    /\ RunEnd(t, InvoicePrefix(t, p, n), "id") > InvoicePrefix(t, p, n)}
    IN IF hits = {} THEN ""
       ELSE LET q == InvoicePrefix(t, Min(hits), n)
            IN SubSeq(t, q, RunEnd(t, q, "id") - 1)

\* the first pattern of invoice_patterns that matches wins
InvoiceNumber(t) ==
    IF InvoiceSearch(t, 1) # "" THEN InvoiceSearch(t, 1)
    ELSE IF InvoiceSearch(t, 2) # "" THEN InvoiceSearch(t, 2)
    ELSE InvoiceSearch(t, 3)

\*   1: total\s*:?\s*\$?        2: amount\s*due\s*:?\s*\$?
TotalPrefix(t, p, n) ==
    LET tail(q) == SkipOpt(t, SkipSpaces(t, SkipOpt(t, SkipSpaces(t, q), ":")), "$")
    IN IF n = 1 THEN (IF LitAt(t, p, "total") THEN tail(p + 5) ELSE 0)
       ELSE IF LitAt(t, p, "amount") /\ LitAt(t, SkipSpaces(t, p + 6), "due")
       THEN tail(SkipSpaces(t, p + 6) + 3) ELSE 0

\* end (exclusive) of ([0-9,]+\.?\d*) started at q
AmountEnd(t, q) == RunEnd(t, SkipOpt(t, RunEnd(t, q, "amount"), "."), "digit")

\* re.search(total_patterns[n], text): group(1), "" when there is no match
TotalSearch(t, n) ==
    LET hits == {p \in 1..Len(t) :
                    /\ TotalPrefix(t, p, n) # 0
                    /\ RunEnd(t, TotalPrefix(t, p, n), "amount") > TotalPrefix(t, p, n)}
    IN IF hits = {} THEN ""
       ELSE LET q == TotalPrefix(t, Min(hits), n)
            IN SubSeq(t, q, AmountEnd(t, q) - 1)

\* s.replace(',', '')
RECURSIVE RemoveCommas(_)
RemoveCommas(s) ==
    IF s = "" THEN ""
    ELSE (IF Head(s) = "," THEN "" ELSE Head(s)) \o RemoveCommas(Tail(s))

\* Mutation: the 'amount due' pattern is tried before the 'total' pattern.
AmountDueFirst(t) ==
    IF TotalSearch(t, 2) # "" THEN RemoveCommas(TotalSearch(t, 2))
    ELSE RemoveCommas(TotalSearch(t, 1))

TotalAmount(t) ==
    IF TotalSearch(t, 1) # "" THEN RemoveCommas(TotalSearch(t, 1))
    ELSE RemoveCommas(TotalSearch(t, 2))

\* text.split('\n')
RECURSIVE SplitLines(_)
SplitLines(t) ==
    LET nl == {k \in 1..Len(t) : Char(t, k) = "\n"}
    IN IF nl = {} THEN <<t>>
       ELSE <<SubSeq(t, 1, Min(nl) - 1)>> \o SplitLines(SubSeq(t, Min(nl) + 1, Len(t)))

\* Mutation: every line of the text is considered, not only the first five.
VendorNameAnyLine(t) ==
    LET lines == SplitLines(t)
        ok == {k \in 1..Len(lines) :
                  /\ strip(lines[k]) # ""
                  /\ Len(strip(lines[k])) > 2
                  /\ ~Contains("@", strip(lines[k]))}
    IN IF ok = {} THEN "" ELSE strip(lines[Min(ok)])

VendorName(t) ==
    LET lines == SplitLines(t)
        ok == {k \in 1..Len(lines) :
                  /\ k <= 5
                  /\ strip(lines[k]) # ""
                  /\ Len(strip(lines[k])) > 2
                  /\ ~Contains("@", strip(lines[k]))}
    IN IF ok = {} THEN "" ELSE strip(lines[Min(ok)])

_rule_based_extraction(t) ==
    [vendor_name |-> VendorName(t),
     vendor_address |-> "",
     vendor_email |-> FirstEmail(t),
     vendor_phone |-> "",
     invoice_number |-> InvoiceNumber(t),
     invoice_date |-> "",
     due_date |-> "",
     total_amount |-> TotalAmount(t),
     line_items |-> <<>>]

----------------------------------------------------------------------------
(* Extraction orchestration: InvoiceReader.extract_invoice_data            *)
(* What an engine does on a document is [raise, text]: it raises (text is  *)
(* then the exception message) or returns text.                            *)

Returns(t) == [raise |-> FALSE, text |-> t]
Raises(msg) == [raise |-> TRUE, text |-> msg]

supported_formats == {"pdf", "png", "jpg", "jpeg"}

\* page.get_text() over the document; fitz is undefined (NameError) when the
\* guarded import block failed
FitzText(rd, f) ==
    IF ~rd.TESSERACT_AVAILABLE THEN Raises("name 'fitz' is not defined") ELSE f.fitz

\* Image.open(BytesIO(content))
ImageOpen(rd, f) ==
    IF ~rd.PIL THEN Raises("name 'Image' is not defined") ELSE f.image_open

_extract_text_from_pdf(rd, f) ==
    IF FitzText(rd, f).raise THEN ""
    ELSE IF strip(FitzText(rd, f).text) # "" THEN FitzText(rd, f).text
    ELSE ""

_extract_text_from_image(rd, f) ==
    IF ImageOpen(rd, f).raise THEN ""
    ELSE IF rd.easyocr_reader /\ ~f.easyocr.raise THEN f.easyocr.text
    ELSE IF rd.TESSERACT_AVAILABLE /\ ~f.tesseract.raise THEN f.tesseract.text
    ELSE ""

_extract_text_from_file(rd, f) ==
    IF f.ext = "pdf" THEN _extract_text_from_pdf(rd, f) ELSE _extract_text_from_image(rd, f)

ErrorRecord(msg) ==
    [vendor_name |-> "", vendor_address |-> "", vendor_email |-> "", vendor_phone |-> "",
     invoice_number |-> "", invoice_date |-> "", due_date |-> "", total_amount |-> "",
     line_items |-> <<>>, error |-> "Extraction failed: " \o msg]

_basic_ocr_extract(rd, f) ==
    IF f.ext = "pdf"
    THEN (IF FitzText(rd, f).raise THEN ErrorRecord(FitzText(rd, f).text)
          ELSE _rule_based_extraction(FitzText(rd, f).text))
    ELSE IF ImageOpen(rd, f).raise THEN ErrorRecord(ImageOpen(rd, f).text)
    ELSE IF ~rd.TESSERACT_AVAILABLE THEN _rule_based_extraction("")
    ELSE IF f.tesseract.raise THEN ErrorRecord(f.tesseract.text)
    ELSE _rule_based_extraction(f.tesseract.text)

\* json.loads(s).  A JSON value is held as the Python value it decodes to:
\* a dict as the function from its keys, a list as a sequence, a str as a
\* string, a number as an int, a bool as a BOOLEAN, null as None.  There is
\* one empty function, so {} and [] both decode to <<>>; the field type,
\* the name of the Python type, tells them apart.  [ok |-> FALSE] stands
\* for JSONDecodeError.

\* the characters U+0001 to U+001F and U+0020 to U+007F, in this order; a
\* string of a module cannot hold the backquote (U+0060), which the texts of
\* this model write as "~"
AsciiControls == "\t\n\f\r"
AsciiPrintable == " !\"#$%&'()*+,-./0123456789:;<=>?@ABCDEFGHIJKLMNOPQRSTUVWXYZ[\\]^_~abcdefghijklmnopqrstuvwxyz{|}~"
Ascii == AsciiControls \o AsciiPrintable
ControlSet == CharsOf(AsciiControls)

\* the character a \uXXXX escape names; one outside ASCII (and U+0000) is
\* not a character of the texts of this model and is shown as U+FFFD
CodeChar(n) == IF n \in 1..127 THEN Char(Ascii, n) ELSE "�"

HexDigits == "0123456789abcdef"
IsHex(c) == c # "" /\ LowerChar(c) \in CharsOf(HexDigits)

RECURSIVE HexVal(_)
HexVal(h) ==
    IF h = "" THEN 0
    ELSE 16 * HexVal(SubSeq(h, 1, Len(h) - 1))
         + (PosIn(LowerChar(Char(h, Len(h))), HexDigits) - 1)

\* JSON whitespace
JsonWs(c) == c \in {" ", "\t", "\n", "\r"}

RECURSIVE SkipWs(_, _)
SkipWs(s, p) == IF p <= Len(s) /\ JsonWs(Char(s, p)) THEN SkipWs(s, p + 1) ELSE p

\* outcome of decoding one value: the value, its Python type and the
\* position after it
JsonError == [ok |-> FALSE, val |-> <<>>, type |-> "", next |-> 0]
Decoded(v, t, p) == [ok |-> TRUE, val |-> v, type |-> t, next |-> p]

\* float('inf') and float('-inf'), which json.loads gives for Infinity
Infinity(sign) == [k |-> "inf", n |-> sign, s |-> ""]

\* the word w stands at position p
WordAt(s, p, w) == p + Len(w) - 1 <= Len(s) /\ SubSeq(s, p, p + Len(w) - 1) = w

\* the escape whose backslash is at p: the character it names
Escape(s, p) ==
    CASE At(s, p + 1) \in {"\"", "\\", "/"} ->
            [ok |-> TRUE, ch |-> At(s, p + 1), next |-> p + 2]
      [] At(s, p + 1) = "b" -> [ok |-> TRUE, ch |-> CodeChar(8), next |-> p + 2]
      [] At(s, p + 1) = "f" -> [ok |-> TRUE, ch |-> "\f", next |-> p + 2]
      [] At(s, p + 1) = "n" -> [ok |-> TRUE, ch |-> "\n", next |-> p + 2]
      [] At(s, p + 1) = "r" -> [ok |-> TRUE, ch |-> "\r", next |-> p + 2]
      [] At(s, p + 1) = "t" -> [ok |-> TRUE, ch |-> "\t", next |-> p + 2]
      [] At(s, p + 1) = "u" /\ \A k \in 2..5 : IsHex(At(s, p + k)) ->
            [ok |-> TRUE, ch |-> CodeChar(HexVal(SubSeq(s, p + 2, p + 5))), next |-> p + 6]
      [] OTHER -> [ok |-> FALSE, ch |-> "", next |-> 0]

\* a string literal from position p on (after its opening quote), acc being
\* what is decoded so far; a raw control character is an error
RECURSIVE ScanString(_, _, _)
AfterEscape(s, e, acc) == IF e.ok THEN ScanString(s, e.next, acc \o e.ch) ELSE JsonError

ScanString(s, p, acc) ==
    IF p > Len(s) THEN JsonError
    ELSE IF Char(s, p) = "\"" THEN Decoded(acc, "str", p + 1)
    ELSE IF Char(s, p) = "\\" THEN AfterEscape(s, Escape(s, p), acc)
    ELSE IF Char(s, p) \in ControlSet THEN JsonError
    ELSE ScanString(s, p + 1, acc \o Char(s, p))

\* a number from position p on: -?(0|[1-9][0-9]*)(\.[0-9]+)?([eE][-+]?[0-9]+)?
\* j is the end of the integer part, e the end of the number; a number
\* without fraction and exponent is an int, any other a float
NumberValue(s, p, j, e) ==
    Decoded(PyFloat(Str(SubSeq(s, p, e - 1))).v, IF e = j THEN "int" ELSE "float", e)

\* x: where the digits of the exponent are to start (0: no exponent mark)
NumberEnd(s, p, j, k, x) ==
    IF x # 0 /\ IsDigit(At(s, x)) THEN NumberValue(s, p, j, RunEnd(s, x, "digit"))
    ELSE NumberValue(s, p, j, k)

\* k: the end of the fraction
ExpPart(s, p, j, k) ==
    NumberEnd(s, p, j, k,
              IF At(s, k) \in {"e", "E"}
              THEN (IF At(s, k + 1) \in {"+", "-"} THEN k + 2 ELSE k + 1) ELSE 0)

FracPart(s, p, j) ==
    ExpPart(s, p, j,
            IF At(s, j) = "." /\ IsDigit(At(s, j + 1)) THEN RunEnd(s, j + 1, "digit") ELSE j)

\* i: where the digits of the integer part are to start
IntPart(s, p, i) ==
    IF ~IsDigit(At(s, i)) THEN JsonError
    ELSE FracPart(s, p, IF At(s, i) = "0" THEN i + 1 ELSE RunEnd(s, i, "digit"))

JsonNumber(s, p) == IntPart(s, p, IF At(s, p) = "-" THEN p + 1 ELSE p)

\* the dict of the members read: the last value of a repeated key stays
DictOf(keys, vals) ==
    [key \in {keys[i] : i \in 1..Len(keys)} |->
        vals[Max({i \in 1..Len(keys) : keys[i] = key})]]

RECURSIVE JsonValue(_, _)
RECURSIVE JsonMembers(_, _, _, _)
RECURSIVE JsonElements(_, _, _)

\* after a member: "}" ends the object, "," is followed by the next member
MemberNext(s, p, keys, vals) ==
    IF At(s, p) = "}" THEN Decoded(DictOf(keys, vals), "dict", p + 1)
    ELSE IF At(s, p) = "," THEN JsonMembers(s, SkipWs(s, p + 1), keys, vals)
    ELSE JsonError

MemberValue(s, key, v, keys, vals) ==
    IF ~v.ok THEN JsonError
    ELSE MemberNext(s, SkipWs(s, v.next), Append(keys, key), Append(vals, v.val))

MemberKey(s, key, keys, vals) ==
    IF ~key.ok \/ At(s, SkipWs(s, key.next)) # ":" THEN JsonError
    ELSE MemberValue(s, key.val, JsonValue(s, SkipWs(s, SkipWs(s, key.next) + 1)),
                     keys, vals)

\* the members of an object from position p on, where a key is to start
JsonMembers(s, p, keys, vals) ==
    IF At(s, p) # "\"" THEN JsonError
    ELSE MemberKey(s, ScanString(s, p + 1, ""), keys, vals)

ElementNext(s, p, vals) ==
    IF At(s, p) = "]" THEN Decoded(vals, "list", p + 1)
    ELSE IF At(s, p) = "," THEN JsonElements(s, SkipWs(s, p + 1), vals)
    ELSE JsonError

ElementValue(s, v, vals) ==
    IF ~v.ok THEN JsonError ELSE ElementNext(s, SkipWs(s, v.next), Append(vals, v.val))

\* the elements of an array from position p on, where a value is to start
JsonElements(s, p, vals) == ElementValue(s, JsonValue(s, p), vals)

\* the object or array whose bracket is at p, q being the first position
\* after the bracket that is not whitespace
JsonObject(s, q) ==
    IF At(s, q) = "}" THEN Decoded(<<>>, "dict", q + 1) ELSE JsonMembers(s, q, <<>>, <<>>)

JsonArray(s, q) ==
    IF At(s, q) = "]" THEN Decoded(<<>>, "list", q + 1) ELSE JsonElements(s, q, <<>>)

\* the value that starts at position p
JsonValue(s, p) ==
    CASE At(s, p) = "\"" -> ScanString(s, p + 1, "")
      [] At(s, p) = "{" -> JsonObject(s, SkipWs(s, p + 1))
      [] At(s, p) = "[" -> JsonArray(s, SkipWs(s, p + 1))
      [] WordAt(s, p, "null") -> Decoded(None, "NoneType", p + 4)
      [] WordAt(s, p, "true") -> Decoded(TRUE, "bool", p + 4)
      [] WordAt(s, p, "false") -> Decoded(FALSE, "bool", p + 5)
      [] WordAt(s, p, "NaN") -> Decoded(NaN, "float", p + 3)
      [] WordAt(s, p, "Infinity") -> Decoded(Infinity(1), "float", p + 8)
      [] WordAt(s, p, "-Infinity") -> Decoded(Infinity(-1), "float", p + 9)
      [] IsDigit(At(s, p)) \/ (At(s, p) = "-" /\ ~WordAt(s, p, "-Infinity")) ->
            JsonNumber(s, p)
      [] OTHER -> JsonError

\* one value, surrounded by JSON whitespace only
JsonDocument(s, v) ==
    IF v.ok /\ SkipWs(s, v.next) = Len(s) + 1
    THEN [ok |-> TRUE, val |-> v.val, type |-> v.type]
    ELSE [ok |-> FALSE, val |-> <<>>, type |-> ""]

JsonLoads(s) == JsonDocument(s, JsonValue(s, SkipWs(s, 1)))

\* JSON documents for the completions of the model: all nine fields, one
\* field only, and a list
JsonFull ==
    "{\"vendor_name\": \"ACME\", \"vendor_address\": \"\", \"vendor_email\": \"\", "
    \o "\"vendor_phone\": \"\", \"invoice_number\": \"77\", \"invoice_date\": \"\", "
    \o "\"due_date\": \"\", \"total_amount\": \"9\", \"line_items\": []}"
JsonPartial == "{\"vendor_name\": \"ACME\"}"
JsonList == "[]"

startswith(s, prefix) == Len(s) >= Len(prefix) /\ SubSeq(s, 1, Len(prefix)) = prefix
endswith(s, suffix) ==
    Len(s) >= Len(suffix) /\ SubSeq(s, Len(s) - Len(suffix) + 1, Len(s)) = suffix

\* The code-fence marker, three backquotes.  A TLA+ string cannot hold the
\* backquote character, so texts of the model write it as "~".
Fence == "~~~"

\* response_text after the two fence-stripping steps
StripFences(content) ==
    LET a == strip(content)
        b == IF startswith(a, Fence \o "json") THEN SubSeq(a, 8, Len(a)) ELSE a
    IN IF endswith(b, Fence) THEN SubSeq(b, 1, Len(b) - 3) ELSE b

\* _llm_structure_data with a configured client, given what the completion
\* call did
\* Mutation: a failed generative step answers with the extraction of an
\* empty text instead of falling back on the raw text.
LlmFailureDropsText(t, response) ==
    IF response.raise THEN _rule_based_extraction("")
    ELSE IF JsonLoads(StripFences(response.text)).ok
    THEN JsonLoads(StripFences(response.text)).val
    ELSE _rule_based_extraction("")

_llm_structure_data(t, response) ==
    IF response.raise THEN _rule_based_extraction(t)
    ELSE IF JsonLoads(StripFences(response.text)).ok
    THEN JsonLoads(StripFences(response.text)).val
    ELSE _rule_based_extraction(t)

\* what chat.completions.create may do: raise, or answer with a text
Completions ==
    {Raises("timeout"), Returns("not json"), Returns(JsonFull),
     Returns(JsonPartial), Returns(JsonList),
     Returns(Fence \o "json\n" \o JsonFull \o "\n" \o Fence),
     Returns(Fence \o "\n" \o JsonFull \o "\n" \o Fence),
     Returns(Fence \o "json\nnot json\n" \o Fence),
     Returns(Fence \o "json\f" \o JsonList \o Fence)}

\* extract_invoice_data: extension check and dispatch on method.lower()
ExtractInvoiceData ==
    /\ pc = "idle"
    /\ IF file.ext \notin supported_formats
       THEN /\ pc' = "raised"
            /\ result' = RaiseMsg("ValueError", "Unsupported file format: " \o file.ext)
       ELSE /\ pc' = CASE lower(method) \in {"auto", "auto (recommended)"} -> "auto"
                       [] lower(method) = "ocr + llm" -> "ocr_llm"
                       [] lower(method) = "ocr only" -> "ocr_only"
                       [] OTHER -> "auto"
            /\ UNCHANGED result
    /\ UNCHANGED <<reader, file, method, in_try, raw_text, calls, completion>>
    /\ UNCHANGED <<tvars, mvars, xvars, uvars, pvars>>

\* _auto_extract: enters the try block and picks the strategy
AutoExtract ==
    /\ pc = "auto"
    /\ in_try' = TRUE
    /\ pc' = IF reader.openai_client THEN "ocr_llm" ELSE "ocr_only"
    /\ UNCHANGED <<reader, file, method, raw_text, calls, result, completion>>
    /\ UNCHANGED <<tvars, mvars, xvars, uvars, pvars>>

\* _ocr_plus_llm_extract up to the choice of the structuring step; the
\* ValueError for empty text is caught only inside _auto_extract
OcrPlusLlmExtract ==
    /\ pc = "ocr_llm"
    /\ raw_text' = _extract_text_from_file(reader, file)
    /\ calls' = [calls EXCEPT !.text = @ + 1]
    /\ IF strip(raw_text') = ""
       THEN IF in_try THEN pc' = "basic" /\ UNCHANGED result
            ELSE pc' = "raised" /\ result' = Raise("ValueError")
       ELSE IF reader.openai_client THEN pc' = "llm" /\ UNCHANGED result
       ELSE pc' = "done" /\ result' = Return(_rule_based_extraction(raw_text'))
    /\ UNCHANGED <<reader, file, method, in_try, completion>>
    /\ UNCHANGED <<tvars, mvars, xvars, uvars, pvars>>

\* Mutation: a completion request that raised is sent once more.
LlmRetriesOnce ==
    /\ pc = "llm"
    /\ \E response \in Completions :
          /\ completion' = response
          /\ IF response.raise /\ calls.llm = 0
             THEN pc' = "llm" /\ UNCHANGED result
             ELSE /\ pc' = "done"
                  /\ result' = Return(_llm_structure_data(raw_text, response))
    /\ calls' = [calls EXCEPT !.llm = @ + 1]
    /\ UNCHANGED <<reader, file, method, in_try, raw_text>>
    /\ UNCHANGED <<tvars, mvars, xvars, uvars, pvars>>

\* _llm_structure_data: one completion request, whose outcome the
\* collaborator decides
LlmStructureData ==
    /\ pc = "llm"
    /\ \E response \in Completions :
          /\ completion' = response
          /\ result' = Return(_llm_structure_data(raw_text, response))
    /\ calls' = [calls EXCEPT !.llm = @ + 1]
    /\ pc' = "done"
    /\ UNCHANGED <<reader, file, method, in_try, raw_text>>
    /\ UNCHANGED <<tvars, mvars, xvars, uvars, pvars>>

\* _ocr_only_extract
OcrOnlyExtract ==
    /\ pc = "ocr_only"
    /\ raw_text' = _extract_text_from_file(reader, file)
    /\ calls' = [calls EXCEPT !.text = @ + 1]
    /\ result' = Return(_rule_based_extraction(raw_text'))
    /\ pc' = "done"
    /\ UNCHANGED <<reader, file, method, in_try, completion>>
    /\ UNCHANGED <<tvars, mvars, xvars, uvars, pvars>>

\* the except branch of _auto_extract: _basic_ocr_extract reads the document again
BasicOcrExtract ==
    /\ pc = "basic"
    /\ result' = Return(_basic_ocr_extract(reader, file))
    /\ calls' = [calls EXCEPT !.text = @ + 1]
    /\ pc' = "done"
    /\ UNCHANGED <<reader, file, method, in_try, raw_text, completion>>
    /\ UNCHANGED <<tvars, mvars, xvars, uvars, pvars>>

----------------------------------------------------------------------------
(* Inputs of the model *)

Range(f) == {f[k] : k \in DOMAIN f}

\* the rows whose j-th cell is drawn from pools[j]
RowsOver(pools) ==
    {r \in [1..Len(pools) -> UNION Range(pools)] : \A j \in 1..Len(pools) : r[j] \in pools[j]}

\* the frames with the given columns and at most maxn such rows (RangeIndex)
Scenario(cols, pools, maxn) ==
    UNION {{Frame(cols, [k \in 1..n |-> k - 1], r) : r \in [1..n -> RowsOver(pools)]} :
              n \in 0..maxn}

SegmentTables ==
    Scenario(<<"Client", "Description", "Quantity", "Rate">>,
             <<{NaN, Str("ABC Corp"), Str("XYZ Ltd")}, {Str("Design")}, {Num(2)},
               {Num(0), Num(150)}>>, MaxRows)
    \cup Scenario(<<"Customer", "Invoice Number", "Description">>,
                  <<{Str("ABC Corp"), Str("XYZ Ltd")}, {Str("INV-001"), Num(7)},
                    {Str("Design")}>>, MaxRows)
    \cup Scenario(<<"Invoice #", "Description", "Rate">>,
                  <<{NaN, Str("INV-001"), Num(0), Num(7)}, {Str("Design")}, {Num(150)}>>,
                  MaxRows)
    \cup Scenario(<<"Name", "Value">>,
                  <<{NaN, Str("Widget")}, {NaN, Num(100), Str("tbd")}>>, MaxRows)
    \cup Scenario(<<"Description", "Amount">>, <<{Str("Design")}, {NaN, Num(5)}>>, MaxRows)

ItemTables ==
    Scenario(<<"Description", "Qty", "Price">>,
             <<{NaN, Str("Design")}, {NaN, Num(-2), Str("two")},
               {NaN, Num(0), Num(-5), Str("12")}>>, MaxItemRows)
    \cup Scenario(<<"Amount">>, <<{NaN, Num(5), Num(-1)}>>, MaxItemRows)

\* frames with the given columns and at most maxn rows taken from a pool of rows
FramesOf(cols, rowpool, maxn) ==
    UNION {{Frame(cols, [k \in 1..n |-> k - 1], r) : r \in [1..n -> rowpool]} :
              n \in 0..maxn}

\* label/value rows: the cells a structured table or an info sheet holds
KeyValueRows ==
    {<<Str("Business Name"), Str("Acme")>>, <<Str("Client Name"), NaN>>,
     <<Str("Invoice Number"), Num(7)>>, <<Str("Tax Rate"), Num(8)>>,
     <<Str("Tax"), Str("tbd")>>}

\* tables of every shape: label/value rows under headers with zero, one and
\* two line-item words, and tables without any mapped column
\* key/value rows for the Structured parser: a label whose value is missing,
\* labels in another case, a repeated label, a cell holding two labels
StructuredRows ==
    {<<Str("Business Name"), Str("Acme")>>, <<Str("Client Name"), NaN>>,
     <<Str("Invoice Number"), Num(7)>>, <<Str("client name"), Str("Bob")>>,
     <<Str("CLIENT NAME"), Str("Ann")>>,
     <<Str("Business Name / Client Name"), Str("Both")>>}

StructuredTables == FramesOf(<<"Field", "Value">>, StructuredRows, MaxRows)

ShapeTables ==
    FramesOf(<<"Field", "Value">>, KeyValueRows, MaxRows)
    \cup FramesOf(<<"Description", "Value">>, KeyValueRows, MaxRows)
    \cup FramesOf(<<"Description", "Qty">>, KeyValueRows, MaxRows)
    \cup Scenario(<<"Name", "Value">>,
                  <<{NaN, Str("Widget")}, {NaN, Num(100), Str("tbd")}>>, MaxItemRows)
    \cup Scenario(<<"Name">>, <<{NaN, Str("Widget")}>>, MaxItemRows)
    \cup Scenario(<<"Invoice #", "Description", "Rate">>,
                  <<{NaN, Str("INV-001"), Num(7)}, {Str("Design")}, {Num(150)}>>,
                  MaxItemRows)

InfoSheets == FramesOf(<<"Field", "Value">>, KeyValueRows, MaxItemRows)

ItemSheets ==
    Scenario(<<"Description", "Price">>, <<{Str("Design")}, {NaN, Str("tbd")}>>, 1)

SheetNames == {"Info", "Items", "Sheet1", "Main Items"}

Sheet(n, d) == [name |-> n, df |-> d]

\* uploads: a CSV file or a one-sheet workbook of any shape, a two-sheet
\* workbook, and files whose extension the processor does not support
Uploads ==
    {[name |-> "invoice.csv", sheets |-> <<Sheet("Sheet1", read_csv(d))>>] :
        d \in ShapeTables}
    \cup {[name |-> "Invoice.XLSX", sheets |-> <<Sheet("Sheet1", d)>>] : d \in ShapeTables}
    \cup {[name |-> "invoice.xls", sheets |-> <<Sheet(n1, a), Sheet(n2, b)>>] :
             n1 \in SheetNames, n2 \in SheetNames, a \in InfoSheets, b \in ItemSheets}
    \cup {[name |-> n, sheets |-> <<Sheet("Sheet1", d)>>] :
             n \in {"scan.pdf", "notes", "data.csv.txt"},
             d \in FramesOf(<<"Field", "Value">>, KeyValueRows, 1)}

Dates == {[y |-> 2024, m |-> 1, d |-> 5], [y |-> 2025, m |-> 12, d |-> 31]}

LabelPool == {"Description", "Item", "Amount", "Price", "Unit Price", "Total"}

\* header lists of distinct labels, with every reordering of each
HeaderLists ==
    UNION {{h \in [1..n -> LabelPool] : \A i, j \in 1..n : i # j => h[i] # h[j]} :
              n \in 1..MaxCols}

Reorderings(h) ==
    {[k \in 1..Len(h) |-> h[p[k]]] :
        p \in {q \in [1..Len(h) -> 1..Len(h)] :
                  \A i, j \in 1..Len(h) : i # j => q[i] # q[j]}}

SampleText ==
    "ACME Corp\n123 St\ncontact@acme.com\n\nINVOICE\nInvoice Number: INV-2024-001\n"
    \o "Total: $1,500.00"

LinePool ==
    {"ACME Corp", "contact@acme.com", "", "INVOICE", "Invoice Number: INV-2024-001",
     "Total: $1,500.00", "Amount Due: $20", "Inv# 7", "ab"}

\* texts of more than five lines: the first qualifying line is the sixth,
\* the fifth, or a padded second one
LongTexts ==
    {"\nab\ncontact@acme.com\n\nbilling@acme.com\nACME Corp",
     "\nab\ncontact@acme.com\n\nACME Corp\nOther Ltd",
     "  \n  ACME Corp \nOther Ltd\n\n\n\nTotal:\f5\n\f"}

Texts ==
    {SampleText} \cup LongTexts
    \cup UNION {{join("\n", ls) : ls \in [1..n -> LinePool]} : n \in 0..MaxLines}

EngineOutcomes ==
    {Returns(""), Returns(" \n\f"), Returns("ACME Corp\nInvoice: 77\nTotal: 9\n\f"),
     Raises("engine failure")}

NoOutcome == Returns("")

Files ==
    {[ext |-> "pdf", fitz |-> o, image_open |-> NoOutcome, easyocr |-> NoOutcome,
      tesseract |-> NoOutcome] : o \in EngineOutcomes}
    \cup {[ext |-> "png", fitz |-> NoOutcome, image_open |-> i, easyocr |-> e,
           tesseract |-> t] :
             i \in {Returns(""), Raises("cannot identify image file")},
             e \in EngineOutcomes, t \in EngineOutcomes}
    \cup {[ext |-> "txt", fitz |-> NoOutcome, image_open |-> NoOutcome,
           easyocr |-> NoOutcome, tesseract |-> NoOutcome]}

\* what __init__ can leave behind: EasyOCR is only constructed when the
\* guarded imports succeeded, and PIL is imported before the import that failed
\* or not at all
Readers ==
    {r \in [TESSERACT_AVAILABLE : BOOLEAN, PIL : BOOLEAN, easyocr_reader : BOOLEAN,
            openai_client : BOOLEAN] :
        /\ r.TESSERACT_AVAILABLE => r.PIL
        /\ r.easyocr_reader => r.TESSERACT_AVAILABLE}

Methods == {"auto", "OCR + LLM", "ocr only", "AI Enhanced"}

----------------------------------------------------------------------------
(* Specifications *)

NotRun == [tag |-> "none"]
Unmapped == [t \in {ColTypes[k] : k \in 1..Len(ColTypes)} |-> -1]
NotExtracted == [pending |-> TRUE]

TableIdle ==
    /\ op = "off"
    /\ df = Frame(<<>>, <<>>, <<>>)
    /\ today = [y |-> 2024, m |-> 1, d |-> 5]
    /\ invoices = NotRun
    /\ items = <<>>
    /\ item_src = <<>>
    /\ inv_src = <<>>

MapperIdle ==
    /\ header = <<>>
    /\ header_p = <<>>
    /\ bound = Unmapped
    /\ bound_p = Unmapped

TextIdle ==
    /\ text = ""
    /\ extracted = NotExtracted

ReaderIdle ==
    /\ reader = [TESSERACT_AVAILABLE |-> FALSE, PIL |-> FALSE, easyocr_reader |-> FALSE,
                 openai_client |-> FALSE]
    /\ file = [ext |-> "", fitz |-> NoOutcome, image_open |-> NoOutcome,
               easyocr |-> NoOutcome, tesseract |-> NoOutcome]
    /\ method = ""
    /\ pc = "off"
    /\ in_try = FALSE
    /\ raw_text = ""
    /\ calls = [text |-> 0, llm |-> 0]
    /\ completion = NoOutcome
    /\ result = NotRun

\* no spreadsheet file has been uploaded
NoUpload == [tag |-> "off"]

UploadIdle ==
    /\ upload = [name |-> "", sheets |-> <<>>]
    /\ steps = <<>>
    /\ record = NoUpload

\* the Read Invoice page is not open in any session
PageIdle ==
    /\ modules = [TESSERACT_AVAILABLE |-> FALSE, OPENAI_AVAILABLE |-> FALSE,
                  OPENAI_API_KEY |-> FALSE, ai_helper_client |-> FALSE]
    /\ sessions = <<>>
    /\ built = [ocr |-> 0, llm |-> 0, clicks |-> 0]

\* Bulk import: a table has been decoded; nothing has run on it yet
Init ==
    /\ op = "idle"
    /\ df \in SegmentTables
    /\ today \in Dates
    /\ invoices = NotRun
    /\ items = <<>>
    /\ item_src = <<>>
    /\ inv_src = <<>>
    /\ MapperIdle /\ TextIdle /\ ReaderIdle /\ UploadIdle /\ PageIdle

\* bulk_import_page: processor.process_bulk_invoices(uploaded_file)
BulkImport ==
    /\ op = "idle"
    /\ op' = "bulk"
    /\ invoices' = process_bulk_invoices(df, today)
    /\ inv_src' = InvoiceSources(df, today)
    /\ UNCHANGED <<df, today, items, item_src>>
    /\ UNCHANGED <<mvars, xvars, rvars, uvars, pvars>>

\* _extract_line_items_from_df applied to the table
ExtractLineItems ==
    /\ op = "idle"
    /\ op' = "items"
    /\ items' = _extract_line_items_from_df(df)
    /\ item_src' = ItemSources(df)
    /\ UNCHANGED <<df, today, invoices, inv_src>>
    /\ UNCHANGED <<mvars, xvars, rvars, uvars, pvars>>

Next == BulkImport

Spec == Init /\ [][Next]_vars

\* Line-item extraction: a table (or row group) handed to the shared helper
InitItems ==
    /\ op = "idle"
    /\ df \in ItemTables
    /\ today = [y |-> 2024, m |-> 1, d |-> 5]
    /\ invoices = NotRun
    /\ items = <<>>
    /\ item_src = <<>>
    /\ inv_src = <<>>
    /\ MapperIdle /\ TextIdle /\ ReaderIdle /\ UploadIdle /\ PageIdle

NextItems == ExtractLineItems

SpecItems == InitItems /\ [][NextItems]_vars

\* Column mapper: a header list and one of its reorderings
InitMap ==
    /\ header \in HeaderLists
    /\ header_p \in Reorderings(header)
    /\ bound = Unmapped
    /\ bound_p = Unmapped
    /\ TableIdle /\ TextIdle /\ ReaderIdle /\ UploadIdle /\ PageIdle

\* the "Find matching columns" loop, run on both header lists
FindMatchingColumns ==
    /\ bound = Unmapped
    /\ bound' = MapColumns(header)
    /\ bound_p' = MapColumns(header_p)
    /\ UNCHANGED <<header, header_p>>
    /\ UNCHANGED <<tvars, xvars, rvars, uvars, pvars>>

NextMap == FindMatchingColumns

SpecMap == InitMap /\ [][NextMap]_vars

\* Single-invoice import and bulk import of an uploaded spreadsheet file
InitRead ==
    /\ upload \in Uploads
    /\ steps = <<>>
    /\ record = NotRun
    /\ TableIdle /\ MapperIdle /\ TextIdle /\ ReaderIdle /\ PageIdle

\* create_invoice_page: processor.read_invoice_data_from_file(uploaded_file)
ReadInvoiceFile ==
    /\ record = NotRun
    /\ record' = read_invoice_data_from_file(upload, today)
    /\ steps' = <<"read_invoice_data_from_file">> \o ReadSteps(upload)
    /\ UNCHANGED upload
    /\ UNCHANGED <<tvars, mvars, xvars, rvars, pvars>>

\* bulk_import_page: processor.process_bulk_invoices(uploaded_file)
BulkImportFile ==
    /\ record = NotRun
    /\ record' = process_bulk_file(upload, today)
    /\ steps' = <<"process_bulk_invoices">> \o BulkSteps(upload)
    /\ UNCHANGED upload
    /\ UNCHANGED <<tvars, mvars, xvars, rvars, pvars>>

NextRead == ReadInvoiceFile \/ BulkImportFile

SpecRead == InitRead /\ [][NextRead]_vars

\* Text extractor: a raw text
InitText ==
    /\ text \in Texts
    /\ extracted = NotExtracted
    /\ TableIdle /\ MapperIdle /\ ReaderIdle /\ UploadIdle /\ PageIdle

RuleBasedExtraction ==
    /\ extracted = NotExtracted
    /\ extracted' = _rule_based_extraction(text)
    /\ UNCHANGED text
    /\ UNCHANGED <<tvars, mvars, rvars, uvars, pvars>>

NextText == RuleBasedExtraction

SpecText == InitText /\ [][NextText]_vars

\* Orchestrator: a constructed reader, an uploaded document and a method
InitReader ==
    /\ reader \in Readers
    /\ file \in Files
    /\ method \in Methods
    /\ pc = "idle"
    /\ in_try = FALSE
    /\ raw_text = ""
    /\ calls = [text |-> 0, llm |-> 0]
    /\ completion = NoOutcome
    /\ result = NotRun
    /\ TableIdle /\ MapperIdle /\ TextIdle /\ UploadIdle /\ PageIdle

NextReader ==
    \/ ExtractInvoiceData
    \/ AutoExtract
    \/ OcrPlusLlmExtract
    \/ LlmStructureData
    \/ OcrOnlyExtract
    \/ BasicOcrExtract

SpecReader == InitReader /\ [][NextReader]_vars

\* Every entry point that takes an uploaded file: a spreadsheet handed to
\* the processor, or a document handed to the reader
InitEntry == InitRead \/ InitReader

NextEntry == NextRead \/ NextReader

SpecEntry == InitEntry /\ [][NextEntry]_vars

\* Structured parsing of a decoded table
InitStructured ==
    /\ df \in StructuredTables
    /\ op = "off"
    /\ today = [y |-> 2024, m |-> 1, d |-> 5]
    /\ invoices = NotRun
    /\ items = <<>>
    /\ item_src = <<>>
    /\ inv_src = <<>>
    /\ upload = [name |-> "", sheets |-> <<>>]
    /\ steps = <<>>
    /\ record = NotRun
    /\ MapperIdle /\ TextIdle /\ ReaderIdle /\ PageIdle

ParseStructured ==
    /\ record = NotRun
    /\ op = "off"
    /\ record' = Return(_parse_structured_format(df))
    /\ steps' = <<"_parse_structured_format">>
    /\ UNCHANGED <<upload, tvars, mvars, xvars, rvars, pvars>>

NextStructured == ParseStructured

SpecStructured == InitStructured /\ [][NextStructured]_vars

\* Read Invoice page: every click on Extract Data runs the handler in the
\* script thread of its session; the handler constructs an InvoiceReader,
\* whose __init__ wires the OCR engine and the LLM client, and extracts with it
\* openai_api_key: st.session_state.settings["openai_api_key"] is not empty
SessionIdle ==
    [pc |-> "idle", easyocr_reader |-> FALSE, openai_client |-> FALSE,
     openai_api_key |-> FALSE]

\* easyocr.Reader(['en']) is constructed when the guarded imports succeeded;
\* a constructor that raises leaves the handle None
_init_ocr_engines(mods, constructs) == mods.TESSERACT_AVAILABLE /\ constructs

\* OpenAI(api_key=...) is constructed when the import succeeded and a key is set
_init_llm(mods, constructs) ==
    mods.OPENAI_AVAILABLE /\ mods.OPENAI_API_KEY /\ constructs

\* AIHelper._setup_openai: openai.OpenAI(api_key=...) is constructed when a
\* key is found (session settings, else os.environ) and the constructor,
\* which exists when "from openai import OpenAI" succeeded, does not raise
_setup_openai(mods, api_key, constructs) ==
    api_key /\ mods.OPENAI_AVAILABLE /\ constructs

\* api_key of _setup_openai run by session s
FoundKey(s) == sessions[s].openai_api_key \/ modules.OPENAI_API_KEY

\* the process after app.py was imported: "ai_helper = AIHelper()" has run
\* _setup_openai once with the key of the environment
InitPage ==
    /\ modules \in [TESSERACT_AVAILABLE : BOOLEAN, OPENAI_AVAILABLE : BOOLEAN,
                     OPENAI_API_KEY : BOOLEAN, ai_helper_client : BOOLEAN]
    /\ modules.ai_helper_client => _setup_openai(modules, modules.OPENAI_API_KEY, TRUE)
    /\ sessions = [s \in 1..MaxSessions |-> SessionIdle]
    /\ built = [ocr |-> 0, llm |-> IF modules.ai_helper_client THEN 1 ELSE 0, clicks |-> 0]
    /\ TableIdle /\ MapperIdle /\ TextIdle /\ ReaderIdle /\ UploadIdle

\* reader = InvoiceReader(): __init__ sets both handles to None
ClickExtract ==
    \E s \in 1..MaxSessions :
        /\ sessions[s].pc = "idle"
        /\ built.clicks < MaxClicks
        /\ sessions' = [sessions EXCEPT ![s].pc = "_init_ocr_engines",
                                        ![s].easyocr_reader = FALSE,
                                        ![s].openai_client = FALSE]
        /\ built' = [built EXCEPT !.clicks = @ + 1]
        /\ UNCHANGED modules
        /\ UNCHANGED <<tvars, mvars, xvars, rvars, uvars>>

InitOcrEngines ==
    \E s \in 1..MaxSessions, constructs \in BOOLEAN :
        /\ sessions[s].pc = "_init_ocr_engines"
        /\ sessions' = [sessions EXCEPT
                            ![s].pc = "_init_llm",
                            ![s].easyocr_reader = _init_ocr_engines(modules, constructs)]
        /\ built' = [built EXCEPT
                         !.ocr = IF _init_ocr_engines(modules, constructs)
                                 THEN @ + 1 ELSE @]
        /\ UNCHANGED modules
        /\ UNCHANGED <<tvars, mvars, xvars, rvars, uvars>>

InitLlm ==
    \E s \in 1..MaxSessions, constructs \in BOOLEAN :
        /\ sessions[s].pc = "_init_llm"
        /\ sessions' = [sessions EXCEPT
                            ![s].pc = "extract_invoice_data",
                            ![s].openai_client = _init_llm(modules, constructs)]
        /\ built' = [built EXCEPT
                         !.llm = IF _init_llm(modules, constructs) THEN @ + 1 ELSE @]
        /\ UNCHANGED modules
        /\ UNCHANGED <<tvars, mvars, xvars, rvars, uvars>>

\* the extraction runs with the reader of this click; the handler returns
\* and its local reader is dropped
PageExtract ==
    \E s \in 1..MaxSessions :
        /\ sessions[s].pc = "extract_invoice_data"
        /\ sessions' = [sessions EXCEPT ![s].pc = "idle",
                                        ![s].easyocr_reader = FALSE,
                                        ![s].openai_client = FALSE]
        /\ UNCHANGED <<modules, built>>
        /\ UNCHANGED <<tvars, mvars, xvars, rvars, uvars>>

\* settings_page, "Save AI Settings", up to the call of _setup_openai: the
\* key typed (empty or not) is stored in the settings of the session and
\* written to os.environ
SaveAISettings ==
    \E s \in 1..MaxSessions, openai_key \in BOOLEAN :
        /\ sessions[s].pc = "idle"
        /\ built.clicks < MaxClicks
        /\ sessions' = [sessions EXCEPT ![s].pc = "_setup_openai",
                                        ![s].openai_api_key = openai_key]
        /\ modules' = [modules EXCEPT !.OPENAI_API_KEY = openai_key]
        /\ built' = [built EXCEPT !.clicks = @ + 1]
        /\ UNCHANGED <<tvars, mvars, xvars, rvars, uvars>>

\* ai_helper._setup_openai() of that handler: the key is the one of the
\* session settings, else the one os.environ holds by now; a client it
\* constructs replaces ai_helper.client
SetupOpenai ==
    \E s \in 1..MaxSessions, constructs \in BOOLEAN :
        /\ sessions[s].pc = "_setup_openai"
        /\ sessions' = [sessions EXCEPT ![s].pc = "idle"]
        /\ modules' = [modules EXCEPT
                           !.ai_helper_client =
                               @ \/ _setup_openai(modules, FoundKey(s), constructs)]
        /\ built' = [built EXCEPT
                         !.llm = IF _setup_openai(modules, FoundKey(s), constructs)
                                 THEN @ + 1 ELSE @]
        /\ UNCHANGED <<tvars, mvars, xvars, rvars, uvars>>

NextPage ==
    \/ ClickExtract \/ InitOcrEngines \/ InitLlm \/ PageExtract
    \/ SaveAISettings \/ SetupOpenai

SpecPage == InitPage /\ [][NextPage]_vars

----------------------------------------------------------------------------
(* Properties: bulk segmentation (specification Spec) *)

\* distinct non-missing values of column c
KeyValues(d, c) == {d.rows[i][c] : i \in 1..Len(d.rows)} \ {NaN}

\* index labels of the rows of d whose cell in column c is key
RowsOfKey(d, c, key) == {d.index[i] : i \in {j \in 1..Len(d.rows) : d.rows[j][c] = key}}

HasGroupingColumn(d) == ClientColumn(d.columns) # 0 \/ InvoiceNumColumn(d.columns) # 0

\* C1: a table with the columns Client, Description, Quantity, Rate whose
\* Client column holds exactly two distinct values is segmented into exactly
\* two records, each carrying its client value as client.name and the items
\* of that client's rows only.
C1_TwoClientsTwoRecords ==
    (/\ op = "bulk"
     /\ df.columns = <<"Client", "Description", "Quantity", "Rate">>
     /\ Cardinality(KeyValues(df, 1)) = 2)
    => /\ invoices.tag = "return"
       /\ Len(invoices.val) = 2
       /\ {invoices.val[k].client.name : k \in 1..2} = KeyValues(df, 1)
       /\ \A k \in 1..2 :
             /\ Range(inv_src[k]) = RowsOfKey(df, 1, invoices.val[k].client.name)
             /\ invoices.val[k].items =
                   _extract_line_items_from_df(RowsWhere(df, 1, invoices.val[k].client.name))

\* C2: segmentation is a partition: when the table has a client/customer or
\* invoice-number column, every data row is a source row of exactly one
\* produced record.
C2_SegmentationIsPartition ==
    (op = "bulk" /\ HasGroupingColumn(df))
    => \A i \in 1..Len(df.rows) :
          Cardinality({k \in 1..Len(inv_src) : df.index[i] \in Range(inv_src[k])}) = 1

\* C3: for every table the segmenter returns a non-empty sequence of records.
C3_SegmentNeverEmpty ==
    op = "bulk" => (invoices.tag = "return" /\ Len(invoices.val) >= 1)

\* C4: a table with both a client/customer column and an invoice-number
\* column is grouped by client: the records correspond one to one to the
\* distinct client values (and not to the invoice numbers).
C4_ClientKeyPrecedence ==
    (/\ op = "bulk"
     /\ ClientColumn(df.columns) # 0
     /\ InvoiceNumColumn(df.columns) # 0)
    => /\ invoices.tag = "return"
       /\ Len(invoices.val) = Cardinality(KeyValues(df, ClientColumn(df.columns)))
       /\ \A k \in 1..Len(invoices.val) :
             /\ invoices.val[k].client.name \in KeyValues(df, ClientColumn(df.columns))
             /\ Range(inv_src[k]) =
                   RowsOfKey(df, ClientColumn(df.columns), invoices.val[k].client.name)
       /\ \A k, l \in 1..Len(invoices.val) :
             k # l => invoices.val[k].client.name # invoices.val[l].client.name

\* C5: grouped by an invoice-number column, each record's invoice number is
\* exactly the key value of its group, for every non-missing key value
\* whatever its type or value; grouped by client, each record gets a
\* generated invoice number.
C5_InvoiceNumberReused ==
    op = "bulk" =>
       /\ (ClientColumn(df.columns) = 0 /\ InvoiceNumColumn(df.columns) # 0)
          => /\ invoices.tag = "return"
             /\ {invoices.val[k].invoice.number : k \in 1..Len(invoices.val)}
                   = KeyValues(df, InvoiceNumColumn(df.columns))
             /\ \A k \in 1..Len(invoices.val) :
                   Range(inv_src[k]) =
                      RowsOfKey(df, InvoiceNumColumn(df.columns),
                                invoices.val[k].invoice.number)
       /\ ClientColumn(df.columns) # 0
          => /\ invoices.tag = "return"
             /\ \A k \in 1..Len(invoices.val) :
                   /\ invoices.val[k].invoice.number.k = "str"
                   /\ startswith(invoices.val[k].invoice.number.s, GeneratedNumber(today))

\* C24: a table with no client/customer header and no invoice-number header
\* is segmented into exactly one record, the Generic normalisation of the
\* whole table (Generic defaults and notes, extracted items or else the
\* fallback item), whatever shape the table would be classified as.
C24_UngroupedIsGeneric ==
    (op = "bulk" /\ ~HasGroupingColumn(df))
    => /\ invoices.tag = "return"
       /\ Len(invoices.val) = 1
       /\ invoices.val[1].notes = "Imported from uploaded file"
       /\ invoices.val[1].client.name = Str("Client")
       /\ invoices.val[1].invoice.number = Str(GeneratedNumber(today))
       /\ (_extract_line_items_from_df(df) # <<>>
           => invoices.val[1].items = _extract_line_items_from_df(df))
       /\ (_extract_line_items_from_df(df) = <<>> /\ Len(df.rows) > 0
           => Len(invoices.val[1].items) = 1)

\* the distinct non-missing values of column c from row i on, in order of
\* first appearance
RECURSIVE KeysFrom(_, _, _)
KeysFrom(d, c, i) ==
    IF i > Len(d.rows) THEN <<>>
    ELSE (IF d.rows[i][c] # NaN /\ \A l \in 1..(i - 1) : d.rows[l][c] # d.rows[i][c]
          THEN <<d.rows[i][c]>> ELSE <<>>) \o KeysFrom(d, c, i + 1)

\* C25: grouped by an invoice-number column (no client/customer column),
\* the output has exactly one record per distinct non-missing value of that
\* column, in order of first appearance, and the items of each record are
\* extracted from exactly the rows whose key cell equals that value.
C25_OneRecordPerInvoiceKey ==
    (op = "bulk" /\ ClientColumn(df.columns) = 0 /\ InvoiceNumColumn(df.columns) # 0)
    => /\ invoices.tag = "return"
       /\ Len(invoices.val) = Len(KeysFrom(df, InvoiceNumColumn(df.columns), 1))
       /\ \A k \in 1..Len(invoices.val) :
             /\ Range(inv_src[k]) =
                   RowsOfKey(df, InvoiceNumColumn(df.columns),
                             KeysFrom(df, InvoiceNumColumn(df.columns), 1)[k])
             /\ invoices.val[k].items =
                   _extract_line_items_from_df(
                       RowsWhere(df, InvoiceNumColumn(df.columns),
                                 KeysFrom(df, InvoiceNumColumn(df.columns), 1)[k]))

----------------------------------------------------------------------------
(* Properties: line-item extraction (specification SpecItems) *)

\* C8: every line item produced has quantity >= 0 and rate >= 0, whatever
\* the numeric cells hold (negative numbers included).
C8_ItemsNonNegative ==
    op = "items" => \A k \in 1..Len(items) : items[k].quantity >= 0 /\ items[k].rate >= 0

\* the description cell of row i is present, resp. its rate cell is a number > 0
HasDescription(d, i) ==
    LET c == MapColumns(d.columns).description
    IN c # 0 /\ d.rows[i][c] # NaN /\ PyStr(d.rows[i][c]) # ""

HasPositiveRate(d, i) ==
    LET c == MapColumns(d.columns).rate
    IN c # 0 /\ d.rows[i][c] # NaN /\ PyFloat(d.rows[i][c]).ok /\ PyFloat(d.rows[i][c]).v > 0

RowIsBlank(d, i) == \A j \in 1..Len(d.columns) : d.rows[i][j] = NaN

\* C9: line-item extraction emits an item for a row if and only if the row
\* is not entirely empty and its description is non-empty or its rate is > 0
\* (one item per such row, in row order); no emitted item has an empty
\* description together with rate = 0.
C9_ItemEmittedIff ==
    op = "items" =>
       /\ Len(item_src) = Len(items)
       /\ \A k, l \in 1..Len(item_src) : k < l => item_src[k] < item_src[l]
       /\ \A i \in 1..Len(df.rows) :
             (df.index[i] \in Range(item_src))
             <=> (~RowIsBlank(df, i) /\ (HasDescription(df, i) \/ HasPositiveRate(df, i)))
       /\ \A k \in 1..Len(items) : ~(items[k].description = "" /\ items[k].rate = 0)

\* C9 witness: a table where one row that is not blank is dropped (no
\* description, rate not positive) and another row is emitted.
C9_Witness ==
    /\ op = "items"
    /\ \E i, j \in 1..Len(df.rows) :
          /\ ~RowIsBlank(df, i) /\ df.index[i] \notin Range(item_src)
          /\ df.index[j] \in Range(item_src)

----------------------------------------------------------------------------
(* Properties: single-invoice import (specification SpecRead) *)

\* the table read_invoice_data_from_file normalises as a single table
ReadTable == upload.sheets[1].df

\* a single table went through _process_csv_data
ReadAsTable ==
    /\ steps # <<>>
    /\ steps[1] = "read_invoice_data_from_file"
    /\ "_process_csv_data" \in Range(steps)

\* lower-cased cell content of the table, cells separated by a blank
CellText(d) ==
    lower(join(" ", [k \in 1..(Len(d.rows) * Len(d.columns)) |->
                        PyStr(d.rows[((k - 1) \div Len(d.columns)) + 1]
                                    [((k - 1) % Len(d.columns)) + 1])]))

HeaderText(d) == lower(join(" ", d.columns))

StructuredHits(d) ==
    Cardinality({w \in {"business name", "client name", "invoice number",
                        "description", "quantity", "rate"} : Contains(w, CellText(d))})

LineItemHits(d) ==
    Cardinality({w \in {"description", "quantity", "qty", "rate", "price", "amount"} :
                    Contains(w, HeaderText(d))})

\* the shape a table is to be handled as
ExpectedParser(d) ==
    IF StructuredHits(d) >= 3 THEN "_parse_structured_format"
    ELSE IF LineItemHits(d) >= 2 THEN "_parse_line_items_format"
    ELSE "_parse_generic_format"

\* the shape a returned record shows: only the Generic parser writes the
\* import note, only the Structured parser leaves the date empty
RecordShape(rec) ==
    IF rec.notes = "Imported from uploaded file" THEN "_parse_generic_format"
    ELSE IF rec.invoice.date = "" THEN "_parse_structured_format"
    ELSE "_parse_line_items_format"

\* C11: a table is handled as Structured iff at least 3 of the six keywords
\* occur in its lower-cased flattened cells, otherwise as LineItemsOnly iff
\* at least 2 of the six line-item words occur in its lower-cased headers,
\* otherwise as Generic; Structured wins when both thresholds are met.
C11_ShapeClassification ==
    ReadAsTable =>
       /\ steps[Len(steps)] = ExpectedParser(ReadTable)
       /\ record.tag = "return" => RecordShape(record.val) = ExpectedParser(ReadTable)

\* C11 witness: a table meeting both thresholds was handled as Structured.
C11_Witness ==
    /\ ReadAsTable
    /\ StructuredHits(ReadTable) >= 3
    /\ LineItemHits(ReadTable) >= 2
    /\ record.tag = "return"
    /\ RecordShape(record.val) = "_parse_structured_format"

\* read_invoice_data_from_file ran on a file of a supported type
ReadSupported ==
    /\ steps # <<>>
    /\ steps[1] = "read_invoice_data_from_file"
    /\ Len(steps) > 1

\* the cell holds text that is not a number
NotNumeric(cell) == cell.k = "str" /\ ~PyFloat(cell).ok

\* the two sheets a workbook with an info and an items sheet is read from
InfoSheetOf(up) == up.sheets[SheetOfKind(up.sheets, "info")].df
ItemsSheetOf(up) == up.sheets[SheetOfKind(up.sheets, "items")].df

\* C16: a cell that cannot be coerced to a number never makes table
\* normalisation raise, and is replaced by the fixed default: rate 0 for a
\* line item and for the Generic fallback item, tax rate 0 for the info
\* sheet.
C16_ParseFailureDefaults ==
    ReadSupported =>
       /\ record.tag = "return"
       /\ ("_parse_items_sheet" \in Range(steps)
           /\ \A i \in 1..Len(ItemsSheetOf(upload).rows) :
                  NotNumeric(ItemsSheetOf(upload).rows[i][2]))
          => \A k \in 1..Len(record.val.items) : record.val.items[k].rate = 0
       /\ ("_parse_info_sheet" \in Range(steps)
           /\ \A i \in 1..Len(InfoSheetOf(upload).rows) :
                  InfoSheetOf(upload).rows[i][1] = Str("Tax Rate")
                  => NotNumeric(InfoSheetOf(upload).rows[i][2]))
          => record.val.tax_rate = 0
       /\ (steps[Len(steps)] = "_parse_generic_format"
           /\ Len(ReadTable.rows) > 0
           /\ Len(ReadTable.columns) > 1
           /\ NotNumeric(ReadTable.rows[1][2]))
          => \A k \in 1..Len(record.val.items) : record.val.items[k].rate = 0

\* the rate the Generic fallback item is to carry: the second cell of the
\* first data row when it is present and numeric, otherwise 0
FallbackRate(d) ==
    IF Len(d.columns) > 1 /\ d.rows[1][2] # NaN /\ PyFloat(d.rows[1][2]).ok
    THEN PyFloat(d.rows[1][2]).v ELSE 0

\* C17: Generic normalisation of a table with at least one data row from
\* which no line item is extracted gives exactly one item, built from the
\* first data row: description = first cell, quantity = 1, rate = second
\* cell when present and numeric, otherwise 0.
C17_GenericFallbackItem ==
    (/\ ReadSupported
     /\ steps[Len(steps)] = "_parse_generic_format"
     /\ Len(ReadTable.rows) >= 1
     /\ \A i \in 1..Len(ReadTable.rows) :
            RowIsBlank(ReadTable, i)
            \/ ~(HasDescription(ReadTable, i) \/ HasPositiveRate(ReadTable, i)))
    => /\ record.tag = "return"
       /\ Len(record.val.items) = 1
       /\ ReadTable.rows[1][1] # NaN
          => record.val.items[1].description = PyStr(ReadTable.rows[1][1])
       /\ record.val.items[1].quantity = 1
       /\ record.val.items[1].rate = FallbackRate(ReadTable)

\* the canonical records an import produced: the one record of a single
\* import, every record of a bulk import, none when the import raised
Produced ==
    IF record.tag # "return" THEN {}
    ELSE IF steps[1] = "process_bulk_invoices" THEN Range(record.val)
    ELSE {record.val}

\* C18: every canonical record produced by any normalisation path has a
\* client name (the one found, or the placeholder "Client"), a non-empty
\* invoice number (the one found, or one generated from the current
\* date), and currency "USD".
C18_UniformDefaults ==
    \A rec \in Produced :
        /\ rec.client.name # Str("")
        /\ rec.invoice.number # Str("")
        /\ rec.invoice.currency = "USD"

\* a cell that is neither None nor NaN
NonNull(c) == c.k \in {"str", "num"}

\* C19: every record returned by read_invoice_data_from_file or
\* process_bulk_invoices has all top-level groups, each group has all its
\* fields, and the client name and invoice number are not null.
C19_AllGroupsPresent ==
    \A rec \in Produced :
        /\ DOMAIN rec = {"business", "client", "invoice", "items", "notes", "tax_rate"}
        /\ DOMAIN rec.business = {"name", "address", "email", "phone"}
        /\ DOMAIN rec.client = {"name", "address", "email"}
        /\ DOMAIN rec.invoice = {"number", "date", "due_date", "currency"}
        /\ NonNull(rec.client.name)
        /\ NonNull(rec.invoice.number)
        /\ rec.items \in Seq([description : STRING, quantity : Int, rate : Int])

\* a workbook with an info and an items sheet was merged into one record
C19_Witness ==
    /\ record.tag = "return"
    /\ "_parse_info_sheet" \in Range(steps)
    /\ "_parse_items_sheet" \in Range(steps)
    /\ Len(record.val.items) > 0

\* the part of a file name after its last ".", lower-cased (the whole name
\* when it has no ".")
NameSuffix(name) ==
    lower(SubSeq(name,
                 Min({i \in 1..(Len(name) + 1) :
                         \A k \in i..Len(name) : Char(name, k) # "."}),
                 Len(name)))

\* C12: a file whose extension is not supported fails with an error that
\* names the extension, before any decoding, normalisation, text extraction
\* or collaborator call has run, and no record is returned: by all three
\* entry points (read_invoice_data_from_file, process_bulk_invoices,
\* extract_invoice_data).
C12_UnsupportedExtensionFails ==
    /\ (record \notin {NoUpload, NotRun}
        /\ NameSuffix(upload.name) \notin {"csv", "xlsx", "xls"})
       => /\ record.tag = "raise"
          /\ Contains("Unsupported file format: " \o NameSuffix(upload.name), record.msg)
          /\ Len(steps) = 1
    /\ (pc \notin {"off", "idle"} /\ file.ext \notin {"pdf", "png", "jpg", "jpeg"})
       => /\ pc = "raised"
          /\ result.tag = "raise"
          /\ Contains(file.ext, result.msg)
          /\ calls = [text |-> 0, llm |-> 0]
          /\ ~in_try

\* C12 witness: a file named data.csv.txt was refused by the processor.
C12_Witness ==
    /\ record.tag = "raise"
    /\ upload.name = "data.csv.txt"
    /\ Len(steps) = 1

----------------------------------------------------------------------------
(* Properties: column mapper (specification SpecMap) *)

RoleSet == {ColTypes[k] : k \in 1..Len(ColTypes)}

\* C10 as stated: for every header list and every reordering of it, each
\* role is bound to the column with the same label text.
C10_BindingStableUnderReordering ==
    bound # Unmapped =>
       \A t \in RoleSet : BoundLabel(header, bound[t]) = BoundLabel(header_p, bound_p[t])

\* headers of h whose lower-cased label contains the synonym
Holders(h, synonym) == {i \in 1..Len(h) : Contains(synonym, lower(h[i]))}

\* the binding b of role t in header list h is the first header, in header
\* order, containing the first synonym of t that any header contains
BoundByTopSynonym(h, t, b) ==
    LET syn == column_mapping[t]
        present == {j \in 1..Len(syn) : Holders(h, syn[j]) # {}}
    IN IF present = {} THEN b = 0
       ELSE b = Min(Holders(h, syn[Min(present)]))

\* C10 amended: each role is bound to at most one column; under any
\* reordering a role is bound exactly when it was bound before, and in both
\* orders to the first header containing the role's highest-priority synonym
\* present; the label is the same whenever a single header contains that
\* synonym.
C10_BindingStableUpToSynonymTies ==
    bound # Unmapped =>
       \A t \in RoleSet :
          /\ BoundByTopSynonym(header, t, bound[t])
          /\ BoundByTopSynonym(header_p, t, bound_p[t])
          /\ (bound[t] = 0) <=> (bound_p[t] = 0)
          /\ \A j \in 1..Len(column_mapping[t]) :
                (/\ Cardinality(Holders(header, column_mapping[t][j])) = 1
                 /\ \A l \in 1..(j - 1) : Holders(header, column_mapping[t][l]) = {})
                => BoundLabel(header, bound[t]) = BoundLabel(header_p, bound_p[t])

\* headers of h containing any synonym of role t
AnyHolders(h, t) ==
    UNION {Holders(h, column_mapping[t][j]) : j \in 1..Len(column_mapping[t])}

\* C22 as stated: each role is bound to the first header, in header order,
\* that contains any synonym of the role; a role no header matches stays
\* unbound.
C22_FirstHeaderWithAnySynonym ==
    bound # Unmapped =>
       \A t \in RoleSet :
          bound[t] = IF AnyHolders(header, t) = {} THEN 0 ELSE Min(AnyHolders(header, t))

\* C22 amended: synonyms are tried in list order; a role is bound to the
\* first header, in header order, containing the first synonym that any
\* header contains (compared case-insensitively), and is unbound exactly when
\* no header contains any of its synonyms.
C22_FirstHeaderOfFirstSynonym ==
    bound # Unmapped =>
       \A t \in RoleSet :
          /\ BoundByTopSynonym(header, t, bound[t])
          /\ (bound[t] = 0) <=> (AnyHolders(header, t) = {})
          /\ bound[t] # 0 => bound[t] \in AnyHolders(header, t)

\* C22 witness: a role is bound to a later header although an earlier one
\* contains a lower-priority synonym of it.
C22_Witness ==
    /\ bound # Unmapped
    /\ \E t \in RoleSet : bound[t] # 0 /\ bound[t] > Min(AnyHolders(header, t))

\* C28: for every header list, the quantity role and the rate role are
\* never bound to the same column.
C28_QuantityAndRateDistinct ==
    bound # Unmapped =>
       (bound.quantity # 0 /\ bound.rate # 0 => bound.quantity # bound.rate)

\* C10 witness: a reordering that moves a role to a column with another label.
C10_Witness ==
    /\ bound # Unmapped
    /\ \E t \in RoleSet :
          /\ bound[t] # 0
          /\ BoundLabel(header, bound[t]) # BoundLabel(header_p, bound_p[t])

----------------------------------------------------------------------------
(* Properties: pattern-based extraction (specification SpecText) *)

\* C6: with no generative collaborator, pattern extraction of the sample
\* text yields vendor_email "contact@acme.com", invoice_number
\* "INV-2024-001", total_amount "1500.00" and vendor_name "ACME Corp"; and on
\* any text with the labelled line "Invoice Number: X" the invoice_number is X.
C6_SampleTextExtraction ==
    extracted # NotExtracted =>
       /\ text = SampleText
          => /\ extracted.vendor_email = "contact@acme.com"
             /\ extracted.invoice_number = "INV-2024-001"
             /\ extracted.total_amount = "1500.00"
             /\ extracted.vendor_name = "ACME Corp"
       /\ (\E k \in 1..Len(SplitLines(text)) :
              SplitLines(text)[k] = "Invoice Number: INV-2024-001")
          => extracted.invoice_number = "INV-2024-001"

\* a line that can serve as vendor name: after trimming it is non-empty,
\* longer than 2 characters and holds no "@"
Qualifies(line) ==
    /\ strip(line) # ""
    /\ Len(strip(line)) > 2
    /\ \A k \in 1..Len(line) : Char(line, k) # "@"

\* C26: vendor_name is the first of the first 5 lines of the text that
\* qualifies, trimmed; it is empty when none of the first 5 lines qualifies,
\* even when a later line would.
C26_VendorNameFirstFive ==
    extracted # NotExtracted =>
       /\ \A k \in 1..Min({5, Len(SplitLines(text))}) :
             (/\ Qualifies(SplitLines(text)[k])
              /\ \A l \in 1..(k - 1) : ~Qualifies(SplitLines(text)[l]))
             => extracted.vendor_name = strip(SplitLines(text)[k])
       /\ (\A k \in 1..Min({5, Len(SplitLines(text))}) : ~Qualifies(SplitLines(text)[k]))
          => extracted.vendor_name = ""

\* C26 witness: no line among the first five qualifies, the sixth does.
C26_Witness ==
    /\ extracted # NotExtracted
    /\ Len(SplitLines(text)) > 5
    /\ \A k \in 1..5 : ~Qualifies(SplitLines(text)[k])
    /\ Qualifies(SplitLines(text)[6])
    /\ extracted.vendor_name = ""

\* C27: when the 'total' pattern matches anywhere in the text its first
\* match is used, even after an earlier 'amount due' match; only when it
\* does not match is the first 'amount due' match used; total_amount never
\* holds a thousands separator and is empty when neither pattern matches.
C27_TotalBeforeAmountDue ==
    extracted # NotExtracted =>
       /\ \A k \in 1..Len(extracted.total_amount) : Char(extracted.total_amount, k) # ","
       /\ TotalSearch(text, 1) # ""
          => extracted.total_amount = RemoveCommas(TotalSearch(text, 1))
       /\ (TotalSearch(text, 1) = "" /\ TotalSearch(text, 2) # "")
          => extracted.total_amount = RemoveCommas(TotalSearch(text, 2))
       /\ (TotalSearch(text, 1) = "" /\ TotalSearch(text, 2) = "")
          => extracted.total_amount = ""
       /\ text = "Amount Due: $20\nTotal: $1,500.00" => extracted.total_amount = "1500.00"
       /\ text = "Total: $1,500.00\nAmount Due: $20" => extracted.total_amount = "1500.00"
       /\ text = "Amount Due: $20\nINVOICE" => extracted.total_amount = "20"
       /\ text = "INVOICE\nab" => extracted.total_amount = ""

\* C27 witness: 'amount due' is matched earlier in the text than 'total', and
\* the total is the one returned, without its separator.
C27_Witness ==
    /\ extracted # NotExtracted
    /\ text = "Amount Due: $20\nTotal: $1,500.00"
    /\ extracted.total_amount = "1500.00"

----------------------------------------------------------------------------
(* Properties: extraction orchestration (specification SpecReader) *)

DataFields ==
    {"vendor_name", "vendor_address", "vendor_email", "vendor_phone", "invoice_number",
     "invoice_date", "due_date", "total_amount"}

\* C7: under the auto strategy, a supported document whose extracted text is
\* empty yields the terminal error record (every data field empty, a
\* non-empty error marker), and the call never raises.
C7_EmptyTextGivesErrorRecord ==
    (/\ in_try
     /\ pc \in {"done", "raised"}
     /\ calls.text >= 1
     /\ strip(raw_text) = "")
    => /\ result.tag = "return"
       /\ \A f \in DataFields : result.val[f] = ""
       /\ result.val.line_items = <<>>
       /\ "error" \in DOMAIN result.val
       /\ result.val.error # ""

\* the response without surrounding blanks and without an optional opening
\* fence (with or without the json tag) and closing fence
Unfenced(t) ==
    LET a == strip(t)
        b == IF startswith(a, Fence \o "json") THEN SubSeq(a, 8, Len(a))
             ELSE IF startswith(a, Fence) THEN SubSeq(a, 4, Len(a))
             ELSE a
    IN IF endswith(b, Fence) THEN SubSeq(b, 1, Len(b) - 3) ELSE b

\* the text is one JSON value, JSON whitespace around it allowed
WellFormedJson(t) == JsonLoads(Unfenced(t)).ok

\* the generative step of this call has run and failed
GenerativeFailed ==
    /\ pc = "done"
    /\ calls.llm = 1
    /\ completion.raise \/ ~WellFormedJson(completion.text)

\* C13: when the configured generative collaborator raises, or answers with
\* text that is not well-formed JSON once optional fence markers are
\* stripped, the call does not raise and its result is exactly the
\* pattern-based extraction of the same raw text.
C13_GenerativeFailureFallsThrough ==
    GenerativeFailed => result = Return(_rule_based_extraction(raw_text))

\* C13 witness: the collaborator answered with text that is not JSON and the
\* vendor name came from the patterns.
C13_Witness ==
    /\ GenerativeFailed
    /\ ~completion.raise
    /\ result.tag = "return"
    /\ result.val.vendor_name = "ACME Corp"

\* C14 as stated: in one call of extract_invoice_data the text of the
\* document is extracted at most once and the generative collaborator is
\* called at most once.
C14_OnePassOnly == calls.text <= 1 /\ calls.llm <= 1

\* C14 amended: the generative collaborator is called at most once; the
\* text of the document is extracted at most twice, and a second time only
\* by the basic fallback of the auto strategy, after the first extraction
\* (with a generative collaborator configured) gave no text; the generative
\* collaborator is never called in such a call.
C14_OnePassThenBasicFallback ==
    /\ calls.llm <= 1
    /\ calls.text <= 2
    /\ calls.text = 2
       => /\ pc = "done"
          /\ in_try
          /\ reader.openai_client
          /\ strip(raw_text) = ""
          /\ calls.llm = 0

\* C14 witness: a call that read the document a second time.
C14_Witness == pc = "done" /\ calls.text = 2 /\ result.tag = "return"

\* C15: for a supported file type and any method value, extract_invoice_data
\* returns a record and never raises, whatever the OCR engines and the
\* generative collaborator do.
C15_SupportedNeverRaises ==
    (pc \in {"done", "raised"} /\ file.ext \in {"pdf", "png", "jpg", "jpeg"})
    => result.tag = "return"

\* C20: text-from-image extraction returns the first non-empty result of
\* EasyOCR, then Tesseract: when EasyOCR fails or yields empty text and
\* Tesseract yields non-empty text, the text returned is Tesseract's.
C20_FirstNonEmptyEngine ==
    (/\ calls.text > 0
     /\ file.ext = "png"
     /\ ~ImageOpen(reader, file).raise
     /\ reader.easyocr_reader /\ reader.TESSERACT_AVAILABLE
     /\ file.easyocr.raise \/ file.easyocr.text = ""
     /\ ~file.tesseract.raise /\ file.tesseract.text # "")
    => raw_text = file.tesseract.text

\* C29: under method 'ocr only' the generative collaborator is never
\* invoked, even when one is configured, and the result is exactly the
\* pattern-based extraction of the extracted text; under 'ocr + llm' with no
\* generative collaborator configured the result is likewise the
\* pattern-based extraction.
C29_PatternOnlyMethods ==
    (/\ pc \in {"done", "raised"}
     /\ file.ext \in {"pdf", "png", "jpg", "jpeg"}
     /\ \/ lower(method) = "ocr only"
        \/ lower(method) = "ocr + llm" /\ ~reader.openai_client)
    => /\ calls.llm = 0
       /\ result = Return(_rule_based_extraction(raw_text))

\* C30: every record returned by extract_invoice_data, on every strategy
\* path including a successful generative structuring, holds all nine
\* document-record fields, and a record produced by pattern-based
\* extraction has line_items empty.
C30_AllNineFields ==
    (pc = "done" /\ result.tag = "return")
    => /\ (DataFields \cup {"line_items"}) \subseteq DOMAIN result.val
       /\ (calls.llm = 0 \/ GenerativeFailed) => result.val.line_items = <<>>

----------------------------------------------------------------------------
(* Properties: collaborator handles (specification SpecPage) *)

\* C21: across any sequence of extractions in one process, concurrent ones
\* included, the OCR engine handle and the generative-model client are each
\* constructed at most once.
C21_HandlesConstructedOnce == built.ocr <= 1 /\ built.llm <= 1

----------------------------------------------------------------------------
(* Properties: Structured parsing (specification SpecStructured) *)

\* the six labelled fields of a Structured record, in the order of KeyPhrases
LabelledFields(rec) ==
    <<rec.business.name, rec.business.email, rec.business.phone,
      PyStr(rec.client.name), rec.client.email, PyStr(rec.invoice.number)>>

\* token positions that contain phrase j and have a next token
LabelPositions(T, j) ==
    {i \in 1..(Len(T) - 1) : Contains(KeyPhrases[j], lower(T[i]))}

\* one pass over the tokens from position i on, writing into fields the
\* next token for the first listed phrase that the token contains
RECURSIVE ScanFrom(_, _, _)
ScanFrom(T, i, fields) ==
    IF i >= Len(T) THEN fields
    ELSE LET here == {j \in 1..Len(KeyPhrases) : Contains(KeyPhrases[j], lower(T[i]))}
         IN ScanFrom(T, i + 1,
                     IF here = {} THEN fields
                     ELSE [fields EXCEPT ![Min(here)] = T[i + 1]])

\* C23 as stated: whenever a token contains one of the key phrases and a
\* next token exists, the next token becomes the value of that field, the
\* last such occurrence winning; a field with no such token stays empty.
C23_NextTokenOfEveryLabel ==
    record.tag = "return" =>
       \A j \in 1..Len(KeyPhrases) :
          LabelledFields(record.val)[j] =
             IF LabelPositions(Tokens(Flatten(df.rows, 1)), j) = {} THEN ""
             ELSE Tokens(Flatten(df.rows, 1))
                     [Max(LabelPositions(Tokens(Flatten(df.rows, 1)), j)) + 1]

\* C23 amended: a token that has a next token sets one field only, that of
\* the first key phrase (in the listed order) it contains; the last such
\* token of a field wins, and a label that is the final token sets nothing.
C23_NextTokenOfFirstLabel ==
    record.tag = "return" =>
       LabelledFields(record.val) =
          ScanFrom(Tokens(Flatten(df.rows, 1)), 1, <<"", "", "", "", "", "">>)

\* C23 witness: a cell holding two labels was followed by a value, and a
\* label was the final token.
C23_Witness ==
    /\ record.tag = "return"
    /\ Len(df.rows) = 2
    /\ df.rows[1][1] = Str("Business Name / Client Name")
    /\ df.rows[2] = <<Str("Client Name"), NaN>>
    /\ record.val.business.name = "Both"
    /\ record.val.client.name = Str("")

====
